---- MODULE Spec2Model ----
(***************************************************************************)
(* go-rustfs: the retry executor (package utils), the in-memory backend    *)
(* (MockRustFSClient), the configuration's content-type matching and the   *)
(* auditable decorator (AuditableRustFSClient) with its audit logger.      *)
(*                                                                         *)
(* Durations are integers of a narrow signed width standing for int64     *)
(* nanoseconds; float64 values are exact rationals [n, d] (rounding of     *)
(* the mantissa is not modelled); strings that the code inspects           *)
(* character by character are sequences of one-character strings.          *)
(***************************************************************************)
EXTENDS Integers, Sequences, FiniteSets, TLC

\* ------------------------------------------------------------------ bounds

\* Largest MaxAttempts a drawn retry policy carries.
MaxAttemptsBound == 3

\* Largest base delay (in ticks) a drawn retry policy carries.
MaxBaseDelay == 2

\* Largest attempt index handed to GetRetryDelay directly.
MaxAttemptIndex == 4

\* Largest base delay handed to GetRetryDelay directly.
MaxDelayArg == 4

\* The largest value of the duration type (int64 in the source, narrowed).
MaxDuration == 63

MinDuration == -MaxDuration - 1

\* ------------------------------------------------------- float64 as rationals

RECURSIVE GCD(_, _)
GCD(a, b) == IF b = 0 THEN a ELSE GCD(b, a % b)

Abs(x) == IF x < 0 THEN -x ELSE x

\* A rational in lowest terms with a positive denominator.
Rat(n, d) ==
    LET g == GCD(Abs(n), d)
    IN  IF n = 0 THEN [n |-> 0, d |-> 1] ELSE [n |-> n \div g, d |-> d \div g]

FromInt(i) == [n |-> i, d |-> 1]

RMul(x, y) == Rat(x.n * y.n, x.d * y.d)

RAdd(x, y) == Rat(x.n * y.d + y.n * x.d, x.d * y.d)

RSub(x, y) == Rat(x.n * y.d - y.n * x.d, x.d * y.d)

RLess(x, y) == x.n * y.d < y.n * x.d

\* math.Pow(x, y) for an integral exponent y >= 0.
RECURSIVE Pow(_, _)
Pow(x, y) == IF y = 0 THEN FromInt(1) ELSE RMul(x, Pow(x, y - 1))

\* Truncation toward zero, as a float64 -> int64 conversion does in range.
Trunc(x) == IF x.n >= 0 THEN x.n \div x.d ELSE -((-x.n) \div x.d)

\* What a float64 -> int64 conversion of an out-of-range value may produce:
\* the result is implementation-dependent (amd64 yields the minimum value,
\* arm64 saturates).
ConversionOutcomes == {MinDuration, MaxDuration}

\* time.Duration(f): in range the truncation, out of range the build's choice.
ToDuration(f, ovf) ==
    LET t == Trunc(f)
    IN  IF t > MaxDuration \/ t < MinDuration THEN ovf ELSE t

\* int64 addition wraps.
WrapAdd(a, b) ==
    LET w == 2 * (MaxDuration + 1)
    IN  ((a + b - MinDuration) % w) + MinDuration

\* ------------------------------------------------------------ calculateDelay

JitterModulus == 1000

\* randomFloat64 for a clock reading nanos = time.Now().UnixNano().
randomFloat64(nanos) == Rat(nanos % JitterModulus, JitterModulus)

\* calculateDelay(attempt, baseDelay, backoff) with the clock reading and the
\* conversion's out-of-range outcome made explicit.
calculateDelay(attempt, baseDelay, backoff, nanos, ovf) ==
    LET delay0 == RMul(FromInt(baseDelay), Pow(backoff, attempt))
        jitter == RMul(RMul(delay0, Rat(1, 4)),
                       RSub(RMul(FromInt(2), randomFloat64(nanos)), FromInt(1)))
        delay1 == RAdd(delay0, jitter)
        delay2 == IF RLess(delay1, FromInt(baseDelay)) THEN FromInt(baseDelay) ELSE delay1
    IN  ToDuration(delay2, ovf)

\* Clock readings the jitter is drawn from (their residues mod 1000 matter).
ClockReadings == {0, 250, 500, 999, 1001}

\* Backoff multipliers: 1.0 (fixed delay), 1.5 (fast), 2.0 (default), 3.0 (slow).
Backoffs == {Rat(1, 1), Rat(3, 2), Rat(2, 1), Rat(3, 1)}


\* -------------------------------------------------------------------- errors

\* Go error values. nil is NilErr; errors.New / fmt.Errorf values are plain;
\* *apperror.AppError carries a status code, a message and the wrapped cause;
\* a context's Err() is context.Canceled or context.DeadlineExceeded.
NilErr == [type |-> "nil"]

PlainErr(msg) == [type |-> "plain", msg |-> msg]

NewAppError(code, msg, cause) == [type |-> "app", code |-> code, msg |-> msg, cause |-> cause]

Canceled == [type |-> "ctx", msg |-> "context canceled"]

DeadlineExceeded == [type |-> "ctx", msg |-> "context deadline exceeded"]

CtxErrors == {Canceled, DeadlineExceeded}

\* The errors an operation handed to the executor fails with.
OpErrors == {PlainErr("Read Timeout"), PlainErr("access denied")}

\* ------------------------------------------------------------------- state

VARIABLES
    \* RetryWithBackoffWithContext: the position in the function and its locals
    pc, config, attempt, lastError, totalDelay, delay, result,
    \* the operation fn: its kind, its scripted outcomes, how often it was started
    fnKind, fnScript, fnCalls,
    \* the context: ctx.Err()
    ctxErr,
    \* history: the executor's position when the context was cancelled, the
    \* number of backoff waits that ended by the timer, and the delays computed
    cancelAt, waitsDone, delays,
    \* history: the mock as it was when the executor was called
    mockAtEntry,
    \* MockRustFSClient
    mock,
    \* AuditableRustFSClient: its audit logger and configuration, the events
    \* that reached the sink, the last call with what it returned
    auditLogger, clientConfig, sink, call,
    \* arguments and result of a function called directly
    args, out,
    \* MockRustFSClient.mu and the goroutines calling the mock concurrently
    mu, threads

retryVars == <<pc, config, attempt, lastError, totalDelay, delay, result,
               fnKind, fnScript, fnCalls, ctxErr, cancelAt, waitsDone, delays,
               mockAtEntry>>

auditVars == <<auditLogger, clientConfig, sink, call>>

pureVars == <<args, out>>

lockVars == <<mu, threads>>

vars == <<retryVars, mock, auditVars, pureVars, lockVars>>

\* ------------------------------------------------------------ MockRustFSClient

Paths == {"snapshots/2024/01/01", "docs/a"}

\* NewMockRustFSClient()
NewMockRustFSClient ==
    [files |-> [p \in {} |-> NilErr], uploads |-> <<>>, deletes |-> <<>>,
     shouldFail |-> FALSE, failError |-> NilErr]

\* SetFailureMode(shouldFail, err)
MockSetFailureMode(m, shouldFail, err) ==
    [m EXCEPT !.shouldFail = shouldFail, !.failError = err]

\* A mutant of DeleteFile: the failure mode is not reset when it is consumed.
MockDeleteFileSticky(m, path) ==
    IF m.shouldFail
    THEN [m |-> m, err |-> m.failError]
    ELSE [m |-> [m EXCEPT !.files = [p \in (DOMAIN m.files) \ {path} |-> m.files[p]],
                          !.deletes = Append(m.deletes, path)],
          err |-> NilErr]

\* A mutant of DeleteFile: a path that is not stored is not logged.
MockDeleteFileSkipsUnstored(m, path) ==
    IF m.shouldFail
    THEN [m |-> [m EXCEPT !.shouldFail = FALSE], err |-> m.failError]
    ELSE IF path \notin DOMAIN m.files
    THEN [m |-> m, err |-> NilErr]
    ELSE [m |-> [m EXCEPT !.files = [p \in (DOMAIN m.files) \ {path} |-> m.files[p]],
                          !.deletes = Append(m.deletes, path)],
          err |-> NilErr]

\* DeleteFile(ctx, path): the mock after the call and the error returned.
MockDeleteFile(m, path) ==
    IF m.shouldFail
    THEN [m |-> [m EXCEPT !.shouldFail = FALSE], err |-> m.failError]
    ELSE [m |-> [m EXCEPT !.files = [p \in (DOMAIN m.files) \ {path} |-> m.files[p]],
                          !.deletes = Append(m.deletes, path)],
          err |-> NilErr]

\* ------------------------------------------------------------- IsRetryableError

LowerCase == <<"a", "b", "c", "d", "e", "f", "g", "h", "i", "j", "k", "l", "m",
               "n", "o", "p", "q", "r", "s", "t", "u", "v", "w", "x", "y", "z">>

UpperCase == <<"A", "B", "C", "D", "E", "F", "G", "H", "I", "J", "K", "L", "M",
               "N", "O", "P", "Q", "R", "S", "T", "U", "V", "W", "X", "Y", "Z">>

\* strings.ToLower
ToLower(str) ==
    [i \in DOMAIN str |->
        IF \E k \in DOMAIN UpperCase : UpperCase[k] = str[i]
        THEN LowerCase[CHOOSE k \in DOMAIN UpperCase : UpperCase[k] = str[i]]
        ELSE str[i]]

\* strings.Contains
StringsContains(str, substr) ==
    \E i \in 1..(Len(str) - Len(substr) + 1) : SubSeq(str, i, i + Len(substr) - 1) = substr

\* containsIgnoreCase(s, substr)
containsIgnoreCase(str, substr) ==
    IF Len(str) < Len(substr) THEN FALSE
    ELSE StringsContains(ToLower(str), ToLower(substr))

\* contains(s, substr)
contains(str, substr) ==
    /\ Len(str) >= Len(substr)
    /\ \/ str = substr
       \/ /\ Len(str) > Len(substr)
          /\ \/ SubSeq(str, 1, Len(substr)) = substr
             \/ SubSeq(str, Len(str) - Len(substr) + 1, Len(str)) = substr
             \/ containsIgnoreCase(str, substr)

\* The patterns of IsRetryableError.
retryablePatterns ==
    <<<<"c", "o", "n", "n", "e", "c", "t", "i", "o", "n", " ", "r", "e", "f", "u", "s", "e", "d">>,
      <<"c", "o", "n", "n", "e", "c", "t", "i", "o", "n", " ", "r", "e", "s", "e", "t">>,
      <<"t", "i", "m", "e", "o", "u", "t">>,
      <<"t", "e", "m", "p", "o", "r", "a", "r", "y", " ", "f", "a", "i", "l", "u", "r", "e">>,
      <<"s", "e", "r", "v", "i", "c", "e", " ", "u", "n", "a", "v", "a", "i", "l", "a", "b", "l", "e">>,
      <<"r", "a", "t", "e", " ", "l", "i", "m", "i", "t">>,
      <<"t", "o", "o", " ", "m", "a", "n", "y", " ", "r", "e", "q", "u", "e", "s", "t", "s">>,
      <<"n", "e", "t", "w", "o", "r", "k", " ", "u", "n", "r", "e", "a", "c", "h", "a", "b", "l", "e">>,
      <<"c", "o", "n", "n", "e", "c", "t", "i", "o", "n", " ", "t", "i", "m", "e", "d", " ", "o", "u", "t">>,
      <<"r", "e", "a", "d", " ", "t", "i", "m", "e", "o", "u", "t">>,
      <<"w", "r", "i", "t", "e", " ", "t", "i", "m", "e", "o", "u", "t">>>>

\* The patterns of isNetworkError.
networkPatterns ==
    <<<<"c", "o", "n", "n", "e", "c", "t", "i", "o", "n", " ", "r", "e", "f", "u", "s", "e", "d">>,
      <<"c", "o", "n", "n", "e", "c", "t", "i", "o", "n", " ", "r", "e", "s", "e", "t">>,
      <<"n", "e", "t", "w", "o", "r", "k", " ", "u", "n", "r", "e", "a", "c", "h", "a", "b", "l", "e">>,
      <<"n", "o", " ", "r", "o", "u", "t", "e", " ", "t", "o", " ", "h", "o", "s", "t">>,
      <<"h", "o", "s", "t", " ", "u", "n", "r", "e", "a", "c", "h", "a", "b", "l", "e">>,
      <<"c", "o", "n", "n", "e", "c", "t", "i", "o", "n", " ", "t", "i", "m", "e", "d", " ", "o", "u", "t">>,
      <<"r", "e", "a", "d", " ", "t", "i", "m", "e", "o", "u", "t">>,
      <<"w", "r", "i", "t", "e", " ", "t", "i", "m", "e", "o", "u", "t">>>>

\* The patterns of isTimeoutError.
timeoutPatterns ==
    <<<<"t", "i", "m", "e", "o", "u", "t">>,
      <<"d", "e", "a", "d", "l", "i", "n", "e", " ", "e", "x", "c", "e", "e", "d", "e", "d">>,
      <<"c", "o", "n", "t", "e", "x", "t", " ", "c", "a", "n", "c", "e", "l", "e", "d">>,
      <<"c", "o", "n", "t", "e", "x", "t", " ", "d", "e", "a", "d", "l", "i", "n", "e", " ", "e", "x", "c", "e", "e", "d", "e", "d">>>>

\* The patterns of isTemporaryError.
temporaryPatterns ==
    <<<<"t", "e", "m", "p", "o", "r", "a", "r", "y">>,
      <<"t", "r", "a", "n", "s", "i", "e", "n", "t">>,
      <<"r", "e", "t", "r", "y", " ", "l", "a", "t", "e", "r">>,
      <<"s", "e", "r", "v", "i", "c", "e", " ", "u", "n", "a", "v", "a", "i", "l", "a", "b", "l", "e">>,
      <<"r", "a", "t", "e", " ", "l", "i", "m", "i", "t">>,
      <<"t", "o", "o", " ", "m", "a", "n", "y", " ", "r", "e", "q", "u", "e", "s", "t", "s">>>>

\* The loop over a pattern list: some pattern is contained in errStr.
MatchesAny(errStr, patterns) ==
    \E i \in DOMAIN patterns : contains(errStr, patterns[i])

\* The messages of the errors an operation or the mock fails with.
ReadTimeoutText == <<"R", "e", "a", "d", " ", "T", "i", "m", "e", "o", "u", "t">>

AccessDeniedText == <<"a", "c", "c", "e", "s", "s", " ", "d", "e", "n", "i", "e", "d">>

InjectedText == <<"i", "n", "j", "e", "c", "t", "e", "d">>

\* err.Error() of a non-nil error made by errors.New, character by character.
ErrorString(err) ==
    CASE err.msg = "Read Timeout" -> ReadTimeoutText
      [] err.msg = "access denied" -> AccessDeniedText
      [] err.msg = "injected" -> InjectedText

isNetworkError(err) ==
    IF err = NilErr THEN FALSE ELSE MatchesAny(ErrorString(err), networkPatterns)

isTimeoutError(err) ==
    IF err = NilErr THEN FALSE ELSE MatchesAny(ErrorString(err), timeoutPatterns)

isTemporaryError(err) ==
    IF err = NilErr THEN FALSE ELSE MatchesAny(ErrorString(err), temporaryPatterns)

\* IsRetryableError(err)
IsRetryableError(err) ==
    IF err = NilErr THEN FALSE
    ELSE IF MatchesAny(ErrorString(err), retryablePatterns) THEN TRUE
    ELSE isNetworkError(err) \/ isTimeoutError(err) \/ isTemporaryError(err)

\* ------------------------------------------------------- MockRustFSClient.mu

\* The number of goroutines that call the mock at the same time.
MaxThreads == 2

Threads == 1..MaxThreads

\* The sync.RWMutex: the goroutine holding Lock (0 for none) and the
\* goroutines holding RLock.
Unlocked == [writer |-> 0, readers |-> {}]

\* A goroutine that is not calling the mock.
Resting == [pc |-> "rest"]

\* No goroutine calls the mock.
NoThreads == [t \in Threads |-> Resting]

\* ------------------------------------------- RetryWithBackoffWithContext

DefaultMaxAttempts == 3

\* time.Second in ticks.
Second == 2

\* The configuration used when config == nil.
DefaultRetryConfig == [MaxAttempts |-> DefaultMaxAttempts, Delay |-> Second, Backoff |-> Rat(2, 1)]

NilConfig == [nil |-> TRUE]

\* The policies the executor is run with (MaxAttempts 0 and -1 included), and
\* nil.
RetryConfigs ==
    {NilConfig} \cup
    [MaxAttempts : -1..MaxAttemptsBound, Delay : 1..MaxBaseDelay, Backoff : {Rat(1, 1), Rat(2, 1)}]

\* Outcomes of one invocation of a scripted operation.
FnOutcomes == {NilErr} \cup OpErrors

\* The error injected into the mock by SetFailureMode.
Injected == PlainErr("injected")

\* Clock readings the executor's jitter is drawn from.
RetryClockReadings == {0, 999}

RetryResult(success, attempts, err, total) ==
    [Success |-> success, Attempts |-> attempts, LastError |-> err, TotalDelay |-> total]

NoResult == RetryResult(FALSE, -1, NilErr, 0)

\* The positions at which RetryWithBackoffWithContext has returned.
Returned == {"return51", "return63", "return85", "return96"}

NeverCancelled == [pc |-> "never", attempt |-> 0, fnCalls |-> 0, waitsDone |-> 0]

\* The error the running invocation of fn returns, and the mock it leaves.
FnOutcome ==
    IF fnKind.kind = "DeleteFile"
    THEN MockDeleteFile(mock, fnKind.path)
    ELSE [m |-> mock,
          err |-> IF fnCalls \in DOMAIN fnScript THEN fnScript[fnCalls] ELSE PlainErr("access denied")]

\* Lines 35-46: entry, with the context as it is when the executor is called.
RetryEnter ==
    /\ pc = "idle"
    /\ \E cfg \in RetryConfigs, ctx0 \in {NilErr, Canceled} :
         LET c == IF cfg = NilConfig THEN DefaultRetryConfig ELSE cfg
         IN  /\ config' = c
             /\ args' = [fn |-> "RetryWithBackoffWithContext", config |-> cfg]
             /\ ctxErr' = ctx0
             /\ cancelAt' = IF ctx0 = NilErr THEN NeverCancelled
                            ELSE [pc |-> "idle", attempt |-> 0, fnCalls |-> 0, waitsDone |-> 0]
             /\ \/ /\ \E script \in [1..c.MaxAttempts -> FnOutcomes] : fnScript' = script
                   /\ fnKind' = [kind |-> "script"]
                \/ /\ \E p \in Paths : fnKind' = [kind |-> "DeleteFile", path |-> p]
                   /\ fnScript' = <<>>
    /\ attempt' = 0
    /\ lastError' = NilErr
    /\ totalDelay' = 0
    /\ mockAtEntry' = mock
    /\ pc' = "loop"
    /\ UNCHANGED <<delay, result, fnCalls, waitsDone, delays, mock, auditVars, out, lockVars>>

\* A mutant of RetryCtxCancelled: the attempt that was not made is counted.
RetryCtxCancelledCountsAttempt ==
    /\ pc = "loop"
    /\ attempt < config.MaxAttempts
    /\ ctxErr # NilErr
    /\ result' = RetryResult(FALSE, attempt + 1, ctxErr, totalDelay)
    /\ pc' = "return51"
    /\ UNCHANGED <<config, attempt, lastError, totalDelay, delay, fnKind, fnScript,
                   fnCalls, ctxErr, cancelAt, waitsDone, delays, mockAtEntry, mock, auditVars, pureVars, lockVars>>

\* Lines 48-58: the loop condition holds and the context is found cancelled.
RetryCtxCancelled ==
    /\ pc = "loop"
    /\ attempt < config.MaxAttempts
    /\ ctxErr # NilErr
    /\ result' = RetryResult(FALSE, attempt, ctxErr, totalDelay)
    /\ pc' = "return51"
    /\ UNCHANGED <<config, attempt, lastError, totalDelay, delay, fnKind, fnScript,
                   fnCalls, ctxErr, cancelAt, waitsDone, delays, mockAtEntry, mock, auditVars, pureVars, lockVars>>

\* A mutant of RetryCtxOk: the first attempt is made whatever MaxAttempts is.
RetryCtxOkAtLeastOnce ==
    /\ pc = "loop"
    /\ attempt < config.MaxAttempts \/ fnCalls = 0
    /\ ctxErr = NilErr
    /\ pc' = "call"
    /\ UNCHANGED <<config, attempt, lastError, totalDelay, delay, result, fnKind,
                   fnScript, fnCalls, ctxErr, cancelAt, waitsDone, delays, mockAtEntry, mock, auditVars, pureVars, lockVars>>

\* A mutant of RetryCtxOk: the attempt is made whatever ctx.Err() says.
RetryCtxOkNoCheck ==
    /\ pc = "loop"
    /\ attempt < config.MaxAttempts
    /\ pc' = "call"
    /\ UNCHANGED <<config, attempt, lastError, totalDelay, delay, result, fnKind,
                   fnScript, fnCalls, ctxErr, cancelAt, waitsDone, delays, mockAtEntry, mock, auditVars, pureVars, lockVars>>

\* Lines 48-50: the loop condition holds and ctx.Err() is nil.
RetryCtxOk ==
    /\ pc = "loop"
    /\ attempt < config.MaxAttempts
    /\ ctxErr = NilErr
    /\ pc' = "call"
    /\ UNCHANGED <<config, attempt, lastError, totalDelay, delay, result, fnKind,
                   fnScript, fnCalls, ctxErr, cancelAt, waitsDone, delays, mockAtEntry, mock, auditVars, pureVars, lockVars>>

\* Line 61: fn(ctx) is entered.
RetryCallFn ==
    /\ pc = "call"
    /\ fnCalls' = fnCalls + 1
    /\ pc' = "running"
    /\ UNCHANGED <<config, attempt, lastError, totalDelay, delay, result, fnKind,
                   fnScript, ctxErr, cancelAt, waitsDone, delays, mockAtEntry, mock, auditVars, pureVars, lockVars>>

\* A mutant of RetryFnReturns: a success is not returned but retried.
RetryFnReturnsNoStop ==
    /\ pc = "running"
    /\ mock' = FnOutcome.m
    /\ lastError' = FnOutcome.err
    /\ attempt' = attempt + 1
    /\ pc' = "loop"
    /\ UNCHANGED <<config, totalDelay, delay, result, fnKind, fnScript, fnCalls, ctxErr,
                   cancelAt, waitsDone, delays, mockAtEntry, auditVars, pureVars, lockVars>>

\* A mutant of RetryFnReturns: an error that is not retryable ends the loop.
RetryFnReturnsIfRetryable ==
    /\ pc = "running"
    /\ mock' = FnOutcome.m
    /\ IF FnOutcome.err = NilErr
       THEN /\ result' = RetryResult(TRUE, attempt + 1, NilErr, totalDelay)
            /\ pc' = "return63"
            /\ UNCHANGED <<attempt, lastError, totalDelay, delay, delays>>
       ELSE /\ lastError' = FnOutcome.err
            /\ IF attempt < config.MaxAttempts - 1 /\ IsRetryableError(FnOutcome.err)
               THEN /\ \E nanos \in RetryClockReadings, ovf \in ConversionOutcomes :
                         delay' = calculateDelay(attempt, config.Delay, config.Backoff, nanos, ovf)
                    /\ totalDelay' = WrapAdd(totalDelay, delay')
                    /\ delays' = Append(delays, delay')
                    /\ pc' = "select"
                    /\ UNCHANGED <<attempt, result>>
               ELSE /\ attempt' = config.MaxAttempts
                    /\ pc' = "loop"
                    /\ UNCHANGED <<totalDelay, delay, delays, result>>
    /\ UNCHANGED <<config, fnKind, fnScript, fnCalls, ctxErr, cancelAt, waitsDone,
                   mockAtEntry, auditVars, pureVars, lockVars>>

\* A mutant of RetryFnReturns: a delay is computed after the last attempt too.
RetryFnReturnsAlwaysWaits ==
    /\ pc = "running"
    /\ mock' = FnOutcome.m
    /\ IF FnOutcome.err = NilErr
       THEN /\ result' = RetryResult(TRUE, attempt + 1, NilErr, totalDelay)
            /\ pc' = "return63"
            /\ UNCHANGED <<attempt, lastError, totalDelay, delay, delays>>
       ELSE /\ lastError' = FnOutcome.err
            /\ \E nanos \in RetryClockReadings, ovf \in ConversionOutcomes :
                 delay' = calculateDelay(attempt, config.Delay, config.Backoff, nanos, ovf)
            /\ totalDelay' = WrapAdd(totalDelay, delay')
            /\ delays' = Append(delays, delay')
            /\ pc' = "select"
            /\ UNCHANGED <<attempt, result>>
    /\ UNCHANGED <<config, fnKind, fnScript, fnCalls, ctxErr, cancelAt, waitsDone,
                   mockAtEntry, auditVars, pureVars, lockVars>>

\* Lines 61-79: fn returns; success is returned, a failure is recorded and,
\* unless this was the last attempt, the delay is computed and added up.
RetryFnReturns ==
    /\ pc = "running"
    /\ mock' = FnOutcome.m
    /\ IF FnOutcome.err = NilErr
       THEN /\ result' = RetryResult(TRUE, attempt + 1, NilErr, totalDelay)
            /\ pc' = "return63"
            /\ UNCHANGED <<attempt, lastError, totalDelay, delay, delays>>
       ELSE /\ lastError' = FnOutcome.err
            /\ IF attempt < config.MaxAttempts - 1
               THEN /\ \E nanos \in RetryClockReadings, ovf \in ConversionOutcomes :
                         delay' = calculateDelay(attempt, config.Delay, config.Backoff, nanos, ovf)
                    /\ totalDelay' = WrapAdd(totalDelay, delay')
                    /\ delays' = Append(delays, delay')
                    /\ pc' = "select"
                    /\ UNCHANGED <<attempt, result>>
               ELSE /\ attempt' = attempt + 1
                    /\ pc' = "loop"
                    /\ UNCHANGED <<totalDelay, delay, delays, result>>
    /\ UNCHANGED <<config, fnKind, fnScript, fnCalls, ctxErr, cancelAt, waitsDone,
                   mockAtEntry, auditVars, pureVars, lockVars>>

\* Lines 81-83: the select takes the timer's case, and the loop goes on.
RetryTimerFires ==
    /\ pc = "select"
    /\ attempt' = attempt + 1
    /\ waitsDone' = waitsDone + 1
    /\ pc' = "loop"
    /\ UNCHANGED <<config, lastError, totalDelay, delay, result, fnKind, fnScript,
                   fnCalls, ctxErr, cancelAt, delays, mockAtEntry, mock, auditVars, pureVars, lockVars>>

\* A mutant of RetryCtxDone: the attempt count of the pre-attempt check is used.
RetryCtxDoneOffByOne ==
    /\ pc = "select"
    /\ ctxErr # NilErr
    /\ result' = RetryResult(FALSE, attempt, ctxErr, totalDelay)
    /\ pc' = "return85"
    /\ UNCHANGED <<config, attempt, lastError, totalDelay, delay, fnKind, fnScript,
                   fnCalls, ctxErr, cancelAt, waitsDone, delays, mockAtEntry, mock, auditVars, pureVars, lockVars>>

\* A mutant of RetryCtxDone: the operation's error is reported, not ctx.Err().
RetryCtxDoneOpError ==
    /\ pc = "select"
    /\ ctxErr # NilErr
    /\ result' = RetryResult(FALSE, attempt + 1, lastError, totalDelay)
    /\ pc' = "return85"
    /\ UNCHANGED <<config, attempt, lastError, totalDelay, delay, fnKind, fnScript,
                   fnCalls, ctxErr, cancelAt, waitsDone, delays, mockAtEntry, mock, auditVars, pureVars, lockVars>>

\* Lines 84-91: the select takes ctx.Done()'s case.
RetryCtxDone ==
    /\ pc = "select"
    /\ ctxErr # NilErr
    /\ result' = RetryResult(FALSE, attempt + 1, ctxErr, totalDelay)
    /\ pc' = "return85"
    /\ UNCHANGED <<config, attempt, lastError, totalDelay, delay, fnKind, fnScript,
                   fnCalls, ctxErr, cancelAt, waitsDone, delays, mockAtEntry, mock, auditVars, pureVars, lockVars>>

\* A mutant of RetryExhausted: the function does not return when the loop ends.
RetryExhaustedNeverReturns ==
    /\ pc = "loop"
    /\ ~(attempt < config.MaxAttempts)
    /\ UNCHANGED vars

\* A mutant of RetryExhausted: the error is dropped from the outcome.
RetryExhaustedNoError ==
    /\ pc = "loop"
    /\ ~(attempt < config.MaxAttempts)
    /\ result' = RetryResult(FALSE, config.MaxAttempts, NilErr, totalDelay)
    /\ pc' = "return96"
    /\ UNCHANGED <<config, attempt, lastError, totalDelay, delay, fnKind, fnScript,
                   fnCalls, ctxErr, cancelAt, waitsDone, delays, mockAtEntry, mock, auditVars, pureVars, lockVars>>

\* Lines 96-102: the loop condition fails.
RetryExhausted ==
    /\ pc = "loop"
    /\ ~(attempt < config.MaxAttempts)
    /\ result' = RetryResult(FALSE, config.MaxAttempts, lastError, totalDelay)
    /\ pc' = "return96"
    /\ UNCHANGED <<config, attempt, lastError, totalDelay, delay, fnKind, fnScript,
                   fnCalls, ctxErr, cancelAt, waitsDone, delays, mockAtEntry, mock, auditVars, pureVars, lockVars>>

\* The context is cancelled, or its deadline passes, while the executor runs.
CancelCtx ==
    /\ pc \in {"loop", "call", "running", "select"}
    /\ ctxErr = NilErr
    /\ \E e \in CtxErrors : ctxErr' = e
    /\ cancelAt' = [pc |-> pc, attempt |-> attempt, fnCalls |-> fnCalls, waitsDone |-> waitsDone]
    /\ UNCHANGED <<pc, config, attempt, lastError, totalDelay, delay, result, fnKind,
                   fnScript, fnCalls, waitsDone, delays, mockAtEntry, mock, auditVars, pureVars, lockVars>>

\* SetFailureMode on the mock before the executor is called.
SetFailureMode ==
    /\ pc = "idle"
    /\ \E b \in BOOLEAN, e \in {NilErr, Injected} : mock' = MockSetFailureMode(mock, b, e)
    /\ UNCHANGED <<retryVars, auditVars, pureVars, lockVars>>

InitRetry ==
    /\ pc = "idle"
    /\ config = DefaultRetryConfig
    /\ attempt = 0
    /\ lastError = NilErr
    /\ totalDelay = 0
    /\ delay = 0
    /\ result = NoResult
    /\ fnKind = [kind |-> "script"]
    /\ fnScript = <<>>
    /\ fnCalls = 0
    /\ ctxErr = NilErr
    /\ cancelAt = NeverCancelled
    /\ waitsDone = 0
    /\ delays = <<>>
    /\ mockAtEntry = NewMockRustFSClient
    /\ mock = NewMockRustFSClient
    /\ auditLogger = [nil |-> TRUE]
    /\ clientConfig = [nil |-> TRUE]
    /\ sink = <<>>
    /\ call = [op |-> "none"]
    /\ args = [fn |-> "none"]
    /\ out = [fn |-> "none"]
    /\ mu = Unlocked
    /\ threads = NoThreads

NextRetry ==
    \/ RetryEnter
    \/ RetryCtxCancelled
    \/ RetryCtxOk
    \/ RetryCallFn
    \/ RetryFnReturns
    \/ RetryTimerFires
    \/ RetryCtxDone
    \/ RetryExhausted
    \/ CancelCtx
    \/ SetFailureMode

SpecRetry == InitRetry /\ [][NextRetry]_vars

\* ------------------------------------------------- the executor's claims

\* The scripted operation fails on every call.
AlwaysFails ==
    /\ fnKind.kind = "script"
    /\ \A i \in DOMAIN fnScript : fnScript[i] # NilErr

\* The scripted operation fails on calls 1..k-1 and succeeds on call k.
SucceedsFirstAt(k) ==
    /\ fnKind.kind = "script"
    /\ k \in DOMAIN fnScript
    /\ fnScript[k] = NilErr
    /\ \A i \in 1..(k - 1) : fnScript[i] # NilErr

\* C1: with maxAttempts = n >= 1 and a token that is never cancelled, an
\* operation that fails on every call is invoked exactly n times and the
\* outcome is Success = false, Attempts = n, LastError = the error of call n.
C1_AlwaysFailingExhausts ==
    (pc \in Returned /\ AlwaysFails /\ config.MaxAttempts >= 1 /\ ctxErr = NilErr)
    => /\ fnCalls = config.MaxAttempts
       /\ result.Success = FALSE
       /\ result.Attempts = config.MaxAttempts
       /\ result.LastError = fnScript[config.MaxAttempts]

C1_Witness ==
    /\ pc = "return96"
    /\ AlwaysFails
    /\ ctxErr = NilErr
    /\ config.MaxAttempts = 3
    /\ fnCalls = 3
    /\ fnScript[2] # fnScript[3]
    /\ result.LastError = fnScript[3]

\* C2: an operation that fails on calls 1..k-1 and succeeds on call k <= n
\* is never invoked more than k times, and with a token that is never
\* cancelled the outcome is Success = true, Attempts = k, LastError = nil
\* after exactly k invocations.
C2_SuccessAtKStops ==
    \A k \in DOMAIN fnScript :
        SucceedsFirstAt(k) =>
            /\ fnCalls <= k
            /\ (pc \in Returned /\ ctxErr = NilErr) =>
                   /\ result.Success = TRUE
                   /\ result.Attempts = k
                   /\ result.LastError = NilErr
                   /\ fnCalls = k

C2_Witness ==
    /\ pc = "return63"
    /\ SucceedsFirstAt(2)
    /\ Len(fnScript) = 3
    /\ fnScript[3] # NilErr
    /\ ctxErr = NilErr
    /\ result.Attempts = 2
    /\ fnCalls = 2

\* C3: whenever the executor returns because of cancellation (at the
\* pre-attempt check or in the backoff wait), the outcome has Success = false,
\* the context's error as LastError and Attempts equal to the number of
\* invocations that were made.
C3_CancelledOutcome ==
    pc \in {"return51", "return85"}
    => /\ result.Success = FALSE
       /\ result.LastError \in CtxErrors
       /\ result.LastError = ctxErr
       /\ result.Attempts = fnCalls
       /\ (result.Attempts = config.MaxAttempts => fnCalls = config.MaxAttempts)

C3_Witness ==
    /\ pc = "return85"
    /\ cancelAt.pc = "select"
    /\ fnCalls = 2
    /\ result.Attempts = 2
    /\ result.LastError = DeadlineExceeded

\* C4 as stated: once the token has fired no invocation starts and no
\* backoff wait completes.
C4_NothingAfterCancel ==
    ctxErr # NilErr
    => /\ fnCalls = cancelAt.fnCalls
       /\ waitsDone = cancelAt.waitsDone

\* C4 amended: after the token has fired the executor starts at most one
\* more invocation, and only when the token fired between the pre-attempt
\* check and the call; at most one backoff wait still ends by its timer, and
\* the executor then returns at the next pre-attempt check without invoking.
C4_AtMostOneAfterCancel ==
    ctxErr # NilErr
    => /\ fnCalls - cancelAt.fnCalls <= (IF cancelAt.pc = "call" THEN 1 ELSE 0)
       /\ waitsDone - cancelAt.waitsDone <= 1
       /\ waitsDone > cancelAt.waitsDone => pc \in {"loop", "return51"}
       /\ pc \in {"call", "running"} => cancelAt.pc \in {"call", "running"}

C4_Witness ==
    /\ pc = "return51"
    /\ cancelAt.pc = "call"
    /\ fnCalls = cancelAt.fnCalls + 1
    /\ waitsDone = cancelAt.waitsDone + 1

\* The token fired after the pre-attempt check of the last allowed attempt.
CancelledInLastAttempt ==
    \/ cancelAt.pc \in {"call", "running"} /\ cancelAt.attempt = config.MaxAttempts - 1
    \/ cancelAt.pc = "loop" /\ cancelAt.attempt >= config.MaxAttempts

\* C5 as stated: a failed outcome returned after the token was cancelled
\* carries the cancellation cause, for every attempt index.
C5_CancelAlwaysReported ==
    (pc \in Returned /\ config.MaxAttempts >= 1 /\ ctxErr # NilErr /\ ~result.Success)
    => result.LastError = ctxErr

\* C5 amended: a failed outcome returned after the token was cancelled
\* carries the cancellation cause, unless the token fired after the
\* pre-attempt check of the last allowed attempt: that outcome is the
\* exhaustion outcome, with Attempts = maxAttempts and the operation's error.
C5_CancelReportedBeforeLastAttempt ==
    (pc \in Returned /\ config.MaxAttempts >= 1 /\ ctxErr # NilErr /\ ~result.Success)
    => IF CancelledInLastAttempt
       THEN /\ pc = "return96"
            /\ result.Attempts = config.MaxAttempts
            /\ result.LastError = lastError
            /\ result.LastError \notin CtxErrors
       ELSE result.LastError = ctxErr

C5_Witness ==
    /\ pc = "return85"
    /\ cancelAt.pc = "running"
    /\ cancelAt.attempt = 0
    /\ config.MaxAttempts = 2
    /\ result.LastError = Canceled

\* The mock was armed to fail once with a non-nil error when the executor
\* was called on its DeleteFile.
DeleteArmedOnce ==
    /\ fnKind.kind = "DeleteFile"
    /\ mockAtEntry.shouldFail
    /\ mockAtEntry.failError # NilErr

\* C10: DeleteFile of the mock armed to fail once, driven through the
\* executor with maxAttempts = 3 and no cancellation, yields Success = true
\* and Attempts = 2 after exactly two invocations of the backend's delete.
C10_DeleteFailsOnceThenSucceeds ==
    (pc \in Returned /\ DeleteArmedOnce /\ config.MaxAttempts = 3 /\ ctxErr = NilErr)
    => /\ result.Success = TRUE
       /\ result.Attempts = 2
       /\ fnCalls = 2
       /\ mock.deletes = <<fnKind.path>>

C10_Witness ==
    /\ pc = "return63"
    /\ DeleteArmedOnce
    /\ config.MaxAttempts = 3
    /\ ctxErr = NilErr
    /\ result.Attempts = 2
    /\ mock.shouldFail = FALSE

\* C13 as stated: every RetryResult returned has Attempts in 1..maxAttempts,
\* for every policy with maxAttempts >= 1 and every cancellation timing.
C13_AttemptsAtLeastOne ==
    (pc \in Returned /\ config.MaxAttempts >= 1)
    => result.Attempts \in 1..config.MaxAttempts

\* C13 amended: every RetryResult returned under a policy with
\* maxAttempts >= 1 has Attempts in 0..maxAttempts, and Attempts is 0 exactly
\* when the operation was never invoked, the token being found cancelled at
\* the first pre-attempt check.
C13_AttemptsCountInvocations ==
    (pc \in Returned /\ config.MaxAttempts >= 1)
    => /\ result.Attempts \in 0..config.MaxAttempts
       /\ result.Attempts = 0 <=> fnCalls = 0
       /\ result.Attempts = 0 => (pc = "return51" /\ result.LastError = ctxErr)

C13_Witness ==
    /\ pc = "return51"
    /\ config.MaxAttempts >= 1
    /\ cancelAt.pc = "idle"
    /\ result.Attempts = 0
    /\ fnCalls = 0

\* C14: in every RetryResult returned by the executor, LastError is non-nil
\* if and only if Success is false.
C14_LastErrorIffFailed ==
    pc \in Returned => (result.LastError # NilErr <=> ~result.Success)

\* ------------------------------------------------------------ GetRetryDelay

NoCall == [fn |-> "none"]

\* The variables of the executor, the mock and the decorator when they are
\* not in use.
RestIdle ==
    /\ pc = "idle"
    /\ config = DefaultRetryConfig
    /\ attempt = 0
    /\ lastError = NilErr
    /\ totalDelay = 0
    /\ delay = 0
    /\ result = NoResult
    /\ fnKind = [kind |-> "script"]
    /\ fnScript = <<>>
    /\ fnCalls = 0
    /\ ctxErr = NilErr
    /\ cancelAt = NeverCancelled
    /\ waitsDone = 0
    /\ delays = <<>>
    /\ mockAtEntry = NewMockRustFSClient
    /\ mock = NewMockRustFSClient
    /\ auditLogger = [nil |-> TRUE]
    /\ clientConfig = [nil |-> TRUE]
    /\ sink = <<>>
    /\ call = [op |-> "none"]
    /\ mu = Unlocked
    /\ threads = NoThreads

\* The arguments GetRetryDelay(attempt, baseDelay, backoff) is called with.
InitDelay ==
    /\ RestIdle
    /\ \E i \in 0..MaxAttemptIndex, d \in 1..MaxDelayArg, b \in Backoffs :
         args = [fn |-> "GetRetryDelay", attempt |-> i, baseDelay |-> d, backoff |-> b]
    /\ out = NoCall

\* GetRetryDelay, which is calculateDelay, at some clock reading.
GetRetryDelay ==
    /\ out = NoCall
    /\ \E nanos \in ClockReadings, ovf \in ConversionOutcomes :
         out' = [fn |-> "GetRetryDelay",
                 delay |-> calculateDelay(args.attempt, args.baseDelay, args.backoff, nanos, ovf)]
    /\ UNCHANGED <<retryVars, mock, auditVars, args, lockVars>>

NextDelay == GetRetryDelay

SpecDelay == InitDelay /\ [][NextDelay]_vars

\* baseDelay * backoff^attempt * 1.25, the upper end of the claimed interval.
DelayUpperEnd(a) ==
    RMul(RMul(FromInt(a.baseDelay), Pow(a.backoff, a.attempt)), Rat(5, 4))

\* C6: for every baseDelay > 0, backoff >= 1, attempt index i >= 0 and jitter
\* draw, the computed delay lies in [baseDelay, baseDelay * backoff^i * 1.25].
C6_DelayWithinInterval ==
    out.fn = "GetRetryDelay"
    => /\ out.delay >= args.baseDelay
       /\ ~RLess(DelayUpperEnd(args), FromInt(out.delay))

\* ------------------------------------------- IsAllowedType, matchContentType

\* Longest pattern and longest content type drawn over the small alphabet.
MaxPatternLen == 3

MaxTypeLen == 3

Alphabet == {"a", "/", "*"}

RECURSIVE StringsUpTo(_)
StringsUpTo(n) ==
    IF n = 0 THEN {<<>>}
    ELSE LET shorter == StringsUpTo(n - 1)
         IN  shorter \cup {Append(w, c) : w \in shorter, c \in Alphabet}

ImageStar == <<"i", "m", "a", "g", "e", "/", "*">>

ImagePng == <<"i", "m", "a", "g", "e", "/", "p", "n", "g">>

ApplicationPdf == <<"a", "p", "p", "l", "i", "c", "a", "t", "i", "o", "n", "/", "p", "d", "f">>

Patterns == StringsUpTo(MaxPatternLen) \cup {ImageStar, ImagePng}

ContentTypes == StringsUpTo(MaxTypeLen) \cup {ImagePng, ApplicationPdf}

\* The AllowedTypes lists: empty, one pattern, or a pattern before or after
\* one of a few others.
AllowedTypeLists ==
    {<<>>} \cup {<<p>> : p \in Patterns}
    \cup {<<p, q>> : p \in Patterns, q \in {ImageStar, <<"a", "/", "*">>}}
    \cup {<<q, p>> : p \in Patterns, q \in {<<"a">>}}

\* strings.HasPrefix, strings.HasSuffix, strings.TrimSuffix
HasPrefix(str, prefix) ==
    Len(str) >= Len(prefix) /\ SubSeq(str, 1, Len(prefix)) = prefix

HasSuffix(str, suffix) ==
    Len(str) >= Len(suffix) /\ SubSeq(str, Len(str) - Len(suffix) + 1, Len(str)) = suffix

TrimSuffix(str, suffix) ==
    IF HasSuffix(str, suffix) THEN SubSeq(str, 1, Len(str) - Len(suffix)) ELSE str

\* A mutant of matchContentType: the "/" is not appended to the prefix.
matchContentTypeNoSlash(pattern, contentType) ==
    IF pattern = contentType THEN TRUE
    ELSE IF HasSuffix(pattern, <<"/", "*">>)
         THEN HasPrefix(contentType, TrimSuffix(pattern, <<"/", "*">>))
         ELSE FALSE

\* matchContentType(pattern, contentType) of package config
matchContentType(pattern, contentType) ==
    IF pattern = contentType THEN TRUE
    ELSE IF HasSuffix(pattern, <<"/", "*">>)
         THEN HasPrefix(contentType, TrimSuffix(pattern, <<"/", "*">>) \o <<"/">>)
         ELSE FALSE

\* (c *RustFSConfig) IsAllowedType(contentType), for c.AllowedTypes = allowed
IsAllowedType(allowed, contentType) ==
    \E i \in DOMAIN allowed : matchContentType(allowed[i], contentType)

InitType ==
    /\ RestIdle
    /\ \E l \in AllowedTypeLists, t \in ContentTypes :
         args = [fn |-> "IsAllowedType", AllowedTypes |-> l, contentType |-> t]
    /\ out = NoCall

IsAllowedTypeCall ==
    /\ out = NoCall
    /\ out' = [fn |-> "IsAllowedType", ok |-> IsAllowedType(args.AllowedTypes, args.contentType)]
    /\ UNCHANGED <<retryVars, mock, auditVars, args, lockVars>>

NextType == IsAllowedTypeCall

SpecType == InitType /\ [][NextType]_vars

\* The pattern is t followed by "/*" for a prefix t of the content type that
\* the content type continues with "/".
WildcardCovers(pattern, contentType) ==
    \E n \in 0..(Len(contentType) - 1) :
        /\ pattern = SubSeq(contentType, 1, n) \o <<"/", "*">>
        /\ contentType[n + 1] = "/"

\* C8: IsAllowedType accepts a content type exactly when some allowed
\* pattern equals it or is 'type/*' with the content type starting with
\* 'type/'; 'image/png' is accepted and 'application/pdf' rejected under
\* ['image/*'].
C8_AllowedTypeMatching ==
    out.fn = "IsAllowedType"
    => /\ out.ok <=> \E i \in DOMAIN args.AllowedTypes :
                        \/ args.AllowedTypes[i] = args.contentType
                        \/ WildcardCovers(args.AllowedTypes[i], args.contentType)
       /\ (args.AllowedTypes = <<ImageStar>> /\ args.contentType = ImagePng) => out.ok
       /\ (args.AllowedTypes = <<ImageStar>> /\ args.contentType = ApplicationPdf) => ~out.ok

C8_Witness ==
    /\ out.fn = "IsAllowedType"
    /\ args.AllowedTypes = <<ImageStar>>
    /\ args.contentType = ImagePng
    /\ out.ok

\* ------------------------------------------------------------ IsValidFilename

\* strings.ToUpper
ToUpper(str) ==
    [i \in DOMAIN str |->
        IF \E k \in DOMAIN LowerCase : LowerCase[k] = str[i]
        THEN UpperCase[CHOOSE k \in DOMAIN LowerCase : LowerCase[k] = str[i]]
        ELSE str[i]]

\* strings.Contains for a one-character substring
ContainsChar(str, c) == \E i \in DOMAIN str : str[i] = c

\* filepath.Ext: the suffix from the final dot of the final path element.
Ext(path) ==
    LET dots == {i \in DOMAIN path : path[i] = "." /\ \A j \in i..Len(path) : path[j] # "/"}
    IN  IF dots = {} THEN <<>>
        ELSE SubSeq(path, CHOOSE i \in dots : \A j \in dots : j <= i, Len(path))

InvalidChars == {"/", "\\", ":", "*", "?", "\"", "<", ">", "|"}

ReservedNames ==
    {<<"C", "O", "N">>, <<"P", "R", "N">>, <<"A", "U", "X">>, <<"N", "U", "L">>}
    \cup {<<"C", "O", "M", d>> : d \in {"1", "2", "3", "4", "5", "6", "7", "8", "9"}}
    \cup {<<"L", "P", "T", d>> : d \in {"1", "2", "3", "4", "5", "6", "7", "8", "9"}}

\* utils.IsValidFilename(filename)
IsValidFilename(filename) ==
    IF filename = <<>> THEN FALSE
    ELSE IF \E c \in InvalidChars : ContainsChar(filename, c) THEN FALSE
    ELSE IF ToUpper(TrimSuffix(filename, Ext(filename))) \in ReservedNames THEN FALSE
    ELSE TRUE

\* ------------------------------------------------ Go maps, requests, responses

\* A map[string]interface{}: nil, or its key/value content.
NilMap == [nil |-> TRUE, kv |-> [k \in {} |-> ""]]

MakeMap(kv) == [nil |-> FALSE, kv |-> kv]

\* g's entries written over f's.
Overwrite(f, g) == g @@ f

\* A nil *types.UploadResponse.
NilResponse == [nil |-> TRUE]

SnapshotPng == <<"s", "n", "a", "p", "s", "h", "o", "t", ".", "p", "n", "g">>

Filenames ==
    {SnapshotPng, <<>>, <<"a", "/", "b">>, <<".", ".">>, <<"c", "o", "n", ".", "t", "x", "t">>,
     <<"C", "o", "N">>}

FileSizes == {0, 1024, 4096}

RequestMetadata ==
    {NilMap, MakeMap([k \in {} |-> ""]), MakeMap([k \in {"upload_source"} |-> "snapshot"])}

\* The upload requests the decorator is called with.
UploadRequests ==
    [Filename : Filenames, ContentType : {ImagePng, ApplicationPdf, <<>>},
     FileSize : FileSizes, BucketPath : Paths, Metadata : RequestMetadata]

UserIDs == {"", "user-1"}

\* ----------------------------------------------------- MockRustFSClient.UploadFile

\* UploadFile(ctx, req): the mock after the call, the response and the error.
\* The response and the stored file info share the request's metadata map.
MockUploadFile(m, req) ==
    IF m.shouldFail
    THEN [m |-> [m EXCEPT !.shouldFail = FALSE], resp |-> NilResponse, err |-> m.failError]
    ELSE LET response == [nil |-> FALSE, Path |-> req.BucketPath, ETag |-> "etag-<nanos>",
                          Size |-> req.FileSize, URL |-> <<"http://mock-storage.com/", req.BucketPath>>,
                          Metadata |-> "req.Metadata"]
             fileInfo == [Path |-> req.BucketPath, Size |-> req.FileSize,
                          ContentType |-> req.ContentType, ETag |-> response.ETag,
                          Metadata |-> "req.Metadata"]
         IN  [m |-> [m EXCEPT !.files = Overwrite(m.files, [p \in {req.BucketPath} |-> fileInfo]),
                              !.uploads = Append(m.uploads, response)],
              resp |-> response, err |-> NilErr]

\* ------------------------------------------------------------ RustFSAuditLogger

\* A nil *RustFSAuditLogger, as the factory passes when EnableAudit is false.
NilLogger == [nil |-> TRUE]

\* NewRustFSAuditLogger(service, auditLogger, config): hasSink says whether the
\* wrapped auditLogger is non-nil, hasConfig whether config is.
NewRustFSAuditLogger(service, hasSink, hasConfig) ==
    [nil |-> FALSE, service |-> service, hasSink |-> hasSink, hasConfig |-> hasConfig]

EmptyKV == [k \in {} |-> ""]

\* The entry k: v when present holds, no entry otherwise.
Entry(k, v, present) == IF present THEN k :> v ELSE EmptyKV

\* err.Error()
ErrorText(err) ==
    IF err.type = "app" THEN <<"apperror", err.code, err.msg>> ELSE err.msg

\* logEvent: the event reaches the sink when there is one.
logEvent(l, snk, event) ==
    IF l.hasSink THEN Append(snk, event) ELSE snk

\* getReason(success, err)
getReason(success, err) ==
    IF success THEN "Operation completed successfully"
    ELSE IF err # NilErr THEN ErrorText(err)
    ELSE "Operation failed"

\* buildFileMetadata(metadata) for a non-nil metadata
buildFileMetadata(l, md) ==
    LET fields ==
            Entry("checksum", md.Checksum, md.Checksum # "")
            @@ Entry("etag", md.ETag, md.ETag # "")
            @@ Entry("ip_address", md.IPAddress, md.IPAddress # "")
            @@ Entry("user_agent", md.UserAgent, md.UserAgent # "")
            @@ Entry("access_time", md.AccessTime, md.AccessTime # "")
            @@ Entry("download_time", md.DownloadTime, md.DownloadTime # "")
            @@ Entry("upload_time", md.UploadTime, md.UploadTime # "")
            @@ Entry("bucket_name", md.BucketName, md.BucketName # "")
            @@ Entry("file_path", md.FilePath, md.FilePath # "")
            @@ Entry("content_type", md.ContentType, md.ContentType # <<>>)
            @@ Entry("file_size", md.FileSize, md.FileSize > 0)
            @@ Entry("file_name", md.Filename, md.Filename # <<>>)
            @@ ("service" :> l.service)
        additional == IF md.Additional.nil THEN fields ELSE Overwrite(fields, md.Additional.kv)
    IN  Overwrite(additional, Entry("config", "l.config", l.hasConfig))

\* LogFileUpload(ctx, userID, metadata, err): the sink after the call.
LogFileUpload(l, snk, userID, md, err) ==
    LET success == (err = NilErr)
        auditMetadata ==
            IF err # NilErr
            THEN Overwrite(buildFileMetadata(l, md),
                           ("error" :> ErrorText(err)) @@ ("error_type" :> "upload_failed"))
            ELSE buildFileMetadata(l, md)
    IN  logEvent(l, snk,
            [EventType |-> IF err # NilErr THEN "storage_error" ELSE "file_uploaded",
             UserID |-> userID, Resource |-> "file", ResourceID |-> md.FilePath,
             Success |-> success, Reason |-> getReason(success, err),
             Metadata |-> auditMetadata])

\* LogStorageError(ctx, userID, operation, metadata): the sink after the call.
LogStorageError(l, snk, userID, operation, md) ==
    LET base == ("operation" :> md.Operation) @@ ("error_code" :> md.ErrorCode)
                @@ ("error_message" :> md.ErrorMessage) @@ ("retry_count" :> md.RetryCount)
                @@ ("duration" :> md.Duration) @@ ("service" :> l.service)
        withContext == Overwrite(base, md.Context)
    IN  logEvent(l, snk,
            [EventType |-> "storage_error", UserID |-> userID, Resource |-> "storage",
             ResourceID |-> "", Success |-> FALSE, Reason |-> md.ErrorMessage,
             Metadata |-> Overwrite(withContext, Entry("config", "l.config", l.hasConfig))])

\* LogPerformanceEvent(ctx, userID, eventType, metadata): the sink after the call.
LogPerformanceEvent(l, snk, userID, eventType, md) ==
    logEvent(l, snk,
        [EventType |-> eventType, UserID |-> userID, Resource |-> "storage",
         ResourceID |-> "", Success |-> TRUE, Reason |-> "",
         Metadata |-> ("operation" :> md.Operation) @@ ("duration" :> md.Duration)
                      @@ ("file_size" :> md.FileSize) @@ ("throughput" :> md.Throughput)
                      @@ ("concurrency" :> 0) @@ ("resource_usage" :> "")
                      @@ ("threshold" :> md.Threshold) @@ ("service" :> l.service)])

\* --------------------------------------------------------- AuditableRustFSClient

\* RUSTFS_TIMEOUT and RUSTFS_MAX_FILE_SIZE as configured (ticks, bytes).
ConfigTimeout == 2

ConfigMaxFileSize == 2048

\* Longest time (in ticks) from startTime to the return of the backend call.
MaxElapsed == 3

\* Longest time (in ticks) validateUploadRequest takes.
MaxValidating == 1

\* The configurations the decorator is constructed with.
ClientConfigs ==
    [BucketName : {"default"}, MaxFileSize : {ConfigMaxFileSize},
     AllowedTypes : {<<ImageStar>>}, Timeout : {ConfigTimeout}]

\* The audit loggers the decorator is constructed with: none, one without a
\* sink (as the factory builds it when audit is enabled) and one with a sink.
AuditLoggers ==
    {NilLogger,
     NewRustFSAuditLogger("rustfs-client", FALSE, TRUE),
     NewRustFSAuditLogger("rustfs-client", TRUE, TRUE)}

\* validateUploadRequest(req)
validateUploadRequest(cfg, req) ==
    IF req.FileSize > cfg.MaxFileSize
    THEN PlainErr("file size exceeds maximum allowed size")
    ELSE IF ~IsAllowedType(cfg.AllowedTypes, req.ContentType)
    THEN PlainErr("content type is not allowed")
    ELSE IF ~IsValidFilename(req.Filename)
    THEN PlainErr("filename is not valid")
    ELSE NilErr

\* A mutant of wrapError: an application error is wrapped like any other.
wrapErrorAlwaysWraps(err, code) ==
    NewAppError(500, <<"RustFS operation failed: ", code>>, err)

\* wrapError(err, code)
wrapError(err, code) ==
    IF err.type = "app" THEN err
    ELSE NewAppError(500, <<"RustFS operation failed: ", code>>, err)

\* calculateThroughput(bytes, duration), in MB/s
calculateThroughput(bytes, duration) ==
    IF duration = 0 THEN FromInt(0)
    ELSE Rat(bytes * Second, duration * 1024 * 1024)

\* logUploadError(ctx, userID, metadata, err, startTime): the sink after it.
logUploadError(l, snk, userID, md, err) ==
    LogStorageError(l, snk, userID, "upload",
        [Operation |-> "upload", ErrorCode |-> "UPLOAD_ERROR", ErrorMessage |-> ErrorText(err),
         RetryCount |-> 0, Duration |-> "<since start>",
         Context |-> ("file_name" :> md.Filename) @@ ("file_size" :> md.FileSize)
                     @@ ("content_type" :> md.ContentType) @@ ("bucket_path" :> md.FilePath)])

\* What a decorator call leaves: the mock, the sink, the request's metadata
\* map, the number of backend calls made, and what the caller gets.
Outcome(m, snk, reqMetadata, backendCalls, ret) ==
    [mock |-> m, sink |-> snk, reqMetadata |-> reqMetadata,
     backendCalls |-> backendCalls, ret |-> ret]

Returns(resp, err) == [panic |-> "", result |-> resp, err |-> err]

Panics(why) == [panic |-> why, result |-> NilResponse, err |-> NilErr]

NilDeref == "invalid memory address or nil pointer dereference"

NilMapWrite == "assignment to entry in nil map"

\* UploadFileWithAudit(ctx, req, userID) of a decorator with logger l and
\* configuration cfg, duration being time.Since(startTime) read when the
\* backend call has returned (startTime is read on entry): m is the backend
\* before the call and up what c.client.UploadFile leaves and returns.
UploadFileWithAuditOver(l, cfg, m, up, snk, req, userID, duration) ==
    LET preUploadMetadata ==
            [Filename |-> req.Filename, FileSize |-> req.FileSize,
             ContentType |-> req.ContentType, FilePath |-> req.BucketPath,
             BucketName |-> cfg.BucketName, UploadTime |-> "", DownloadTime |-> "",
             AccessTime |-> "", UserAgent |-> "", IPAddress |-> "", ETag |-> "",
             Checksum |-> "", Additional |-> req.Metadata]
        verr == validateUploadRequest(cfg, req)
    IN  IF verr # NilErr
        THEN IF l.nil
             THEN Outcome(m, snk, req.Metadata, 0, Panics(NilDeref))
             ELSE Outcome(m, logUploadError(l, snk, userID, preUploadMetadata, verr),
                          req.Metadata, 0, Returns(NilResponse, wrapError(verr, "VALIDATION_ERROR")))
        ELSE IF up.err # NilErr
        THEN IF l.nil
             THEN Outcome(up.m, snk, req.Metadata, 1, Panics(NilDeref))
             ELSE Outcome(up.m, logUploadError(l, snk, userID, preUploadMetadata, up.err),
                          req.Metadata, 1, Returns(NilResponse, wrapError(up.err, "UPLOAD_FAILED")))
        ELSE IF up.resp.nil
        THEN Outcome(up.m, snk, req.Metadata, 1, Panics(NilDeref))
        ELSE IF req.Metadata.nil
        THEN Outcome(up.m, snk, req.Metadata, 1, Panics(NilMapWrite))
        ELSE LET written ==
                     MakeMap(Overwrite(req.Metadata.kv,
                         ("upload_duration" :> "<duration>")
                         @@ ("upload_speed" :> calculateThroughput(up.resp.Size, duration))))
                 metadata ==
                     [preUploadMetadata EXCEPT !.ETag = up.resp.ETag, !.UploadTime = "<now>",
                                               !.Additional = written]
                 logged == LogFileUpload(l, snk, userID, metadata, NilErr)
                 slow ==
                     IF duration > cfg.Timeout
                     THEN LogPerformanceEvent(l, logged, userID, "upload_slow",
                              [Operation |-> "upload", Duration |-> "<duration>",
                               FileSize |-> req.FileSize,
                               Throughput |-> calculateThroughput(req.FileSize, duration),
                               Threshold |-> cfg.Timeout])
                     ELSE logged
             IN  IF l.nil
                 THEN Outcome(up.m, snk, written, 1, Panics(NilDeref))
                 ELSE Outcome(up.m, slow, written, 1, Returns(up.resp, NilErr))

\* UploadFileWithAudit of a decorator over the mock m.
UploadFileWithAudit(l, cfg, m, snk, req, userID, duration) ==
    UploadFileWithAuditOver(l, cfg, m, MockUploadFile(m, req), snk, req, userID, duration)

\* What the S3 service and the request's reader do during one upload: the
\* error of reading the file, the bytes read, the error of PutObject.
S3Outcomes ==
    {[read |-> NilErr, bytes |-> 1024, put |-> NilErr],
     [read |-> PlainErr("unexpected EOF"), bytes |-> 0, put |-> NilErr],
     [read |-> NilErr, bytes |-> 1024, put |-> PlainErr("connection refused")]}

\* A mutant of RustFSClient.UploadFile: the response leaves the path empty.
RustFSClientUploadFileRenames(m, req, s3) ==
    IF req.FileSize = 0 /\ s3.read # NilErr
    THEN [m |-> m, resp |-> NilResponse, err |-> NewAppError(500, <<"FILE_READ_ERROR">>, s3.read)]
    ELSE IF s3.put # NilErr
    THEN [m |-> m, resp |-> NilResponse, err |-> NewAppError(500, <<"UPLOAD_FAILED">>, s3.put)]
    ELSE [m |-> m,
          resp |-> [nil |-> FALSE, Path |-> "",
                    URL |-> <<"<base>/<bucket>/", req.BucketPath>>,
                    Size |-> IF req.FileSize = 0 THEN s3.bytes ELSE req.FileSize,
                    ContentType |-> req.ContentType,
                    ETag |-> "", Metadata |-> "req.Metadata"],
          err |-> NilErr]

\* UploadFile(ctx, req) of the S3 client RustFSClient: what it returns; m, the
\* in-memory backend, is not involved and stays as it is.
RustFSClientUploadFile(m, req, s3) ==
    IF req.FileSize = 0 /\ s3.read # NilErr
    THEN [m |-> m, resp |-> NilResponse, err |-> NewAppError(500, <<"FILE_READ_ERROR">>, s3.read)]
    ELSE IF s3.put # NilErr
    THEN [m |-> m, resp |-> NilResponse, err |-> NewAppError(500, <<"UPLOAD_FAILED">>, s3.put)]
    ELSE [m |-> m,
          resp |-> [nil |-> FALSE, Path |-> req.BucketPath,
                    URL |-> <<"<base>/<bucket>/", req.BucketPath>>,
                    Size |-> IF req.FileSize = 0 THEN s3.bytes ELSE req.FileSize,
                    ContentType |-> IF req.ContentType = <<>>
                                    THEN <<"application/octet-stream">> ELSE req.ContentType,
                    ETag |-> "", Metadata |-> "req.Metadata"],
          err |-> NilErr]

\* GetFileInfo(ctx, path) of the mock: the mock after the call, the file
\* information and the error. The failure mode is reset under the read lock.
MockGetFileInfo(m, path) ==
    IF m.shouldFail
    THEN [m |-> [m EXCEPT !.shouldFail = FALSE], info |-> [nil |-> TRUE], err |-> m.failError]
    ELSE IF path \notin DOMAIN m.files
    THEN [m |-> m, info |-> [nil |-> TRUE], err |-> PlainErr(<<"file not found: ", path>>)]
    ELSE [m |-> m, info |-> [nil |-> FALSE] @@ m.files[path], err |-> NilErr]

\* MockRustFSClientBuilder.WithFile(path, size, contentType)
MockWithFile(m, path, size, contentType) ==
    [m EXCEPT !.files =
        Overwrite(m.files,
            [p \in {path} |-> [Path |-> path, Size |-> size, ContentType |-> contentType,
                               ETag |-> "etag-<nanos>", Metadata |-> "make(map)"]])]

\* A mutant of CheckHealth: the failure mode is not reset when it is consumed.
MockCheckHealthSticky(m) ==
    IF m.shouldFail
    THEN [m |-> m, err |-> m.failError]
    ELSE [m |-> m, err |-> NilErr]

\* CheckHealth(ctx): the mock after the call and the error.
MockCheckHealth(m) ==
    IF m.shouldFail
    THEN [m |-> [m EXCEPT !.shouldFail = FALSE], err |-> m.failError]
    ELSE [m |-> m, err |-> NilErr]

\* The limits ListFiles is called with; 0 is no limit.
ListLimits == {0, 1}

\* ListFiles(ctx, "", limit): the mock after the call, the listings the map's
\* iteration order allows (each a set of paths) and the error.
MockListFiles(m, limit) ==
    IF m.shouldFail
    THEN [m |-> [m EXCEPT !.shouldFail = FALSE], files |-> {{}}, err |-> m.failError]
    ELSE [m |-> m,
          files |-> IF limit > 0 /\ Cardinality(DOMAIN m.files) > limit
                    THEN {l \in SUBSET (DOMAIN m.files) : Cardinality(l) = limit}
                    ELSE {DOMAIN m.files},
          err |-> NilErr]

\* CopyFile(ctx, sourcePath, destPath): the mock after the call and the error.
MockCopyFile(m, sourcePath, destPath) ==
    IF m.shouldFail
    THEN [m |-> [m EXCEPT !.shouldFail = FALSE], err |-> m.failError]
    ELSE IF sourcePath \notin DOMAIN m.files
    THEN [m |-> m, err |-> PlainErr(<<"source file not found: ", sourcePath>>)]
    ELSE LET sourceFile == m.files[sourcePath]
             destFile == [Path |-> destPath, Size |-> sourceFile.Size,
                          ContentType |-> sourceFile.ContentType, ETag |-> "etag-<nanos>",
                          Metadata |-> sourceFile.Metadata]
         IN  [m |-> [m EXCEPT !.files = Overwrite(m.files, [p \in {destPath} |-> destFile])],
              err |-> NilErr]

\* Reset(): the mock after the call.
MockReset(m) ==
    [m EXCEPT !.files = [p \in {} |-> NilErr], !.uploads = <<>>, !.deletes = <<>>,
              !.shouldFail = FALSE, !.failError = NilErr]

\* Close(): the mock after the call and the error, always nil.
MockClose(m) ==
    [m |-> MockReset(m), err |-> NilErr]

\* LogFileDelete(ctx, userID, filePath, metadata, err): the sink after the call.
LogFileDelete(l, snk, userID, filePath, md, err) ==
    LET success == (err = NilErr)
        auditMetadata ==
            IF err # NilErr
            THEN Overwrite(buildFileMetadata(l, md),
                           ("error" :> ErrorText(err)) @@ ("error_type" :> "delete_failed"))
            ELSE buildFileMetadata(l, md)
    IN  logEvent(l, snk,
            [EventType |-> IF err # NilErr THEN "storage_error" ELSE "file_deleted",
             UserID |-> userID, Resource |-> "file", ResourceID |-> filePath,
             Success |-> success, Reason |-> getReason(success, err),
             Metadata |-> auditMetadata])

\* A mutant of LogFileAccess: the event says success whatever happened.
LogFileAccessAlwaysSuccess(l, snk, userID, filePath, md, err) ==
    logEvent(l, snk,
        [EventType |-> IF err # NilErr THEN "storage_access_denied" ELSE "file_accessed",
         UserID |-> userID, Resource |-> "file", ResourceID |-> filePath,
         Success |-> TRUE, Reason |-> getReason(TRUE, err),
         Metadata |-> buildFileMetadata(l, md)])

\* LogFileAccess(ctx, userID, filePath, metadata, err): the sink after the call.
LogFileAccess(l, snk, userID, filePath, md, err) ==
    LET success == (err = NilErr)
        auditMetadata ==
            IF err # NilErr
            THEN Overwrite(buildFileMetadata(l, md),
                           ("error" :> ErrorText(err)) @@ ("error_type" :> "access_denied"))
            ELSE buildFileMetadata(l, md)
    IN  logEvent(l, snk,
            [EventType |-> IF err # NilErr THEN "storage_access_denied" ELSE "file_accessed",
             UserID |-> userID, Resource |-> "file", ResourceID |-> filePath,
             Success |-> success, Reason |-> getReason(success, err),
             Metadata |-> auditMetadata])

\* The values the context may hold under the key "user_id": none, a value
\* that is no string, the empty string, a user's id.
CtxUserIDs ==
    {[kind |-> "absent"], [kind |-> "int", v |-> 42],
     [kind |-> "string", v |-> ""], [kind |-> "string", v |-> "user-1"]}

\* extractUserID(ctx)
extractUserID(ctxValue) ==
    IF ctxValue.kind = "string" THEN ctxValue.v ELSE "system"

\* The FileOperationMetadata DeleteFileWithAudit and GetFileInfo build.
PathMetadata(cfg, path) ==
    [Filename |-> <<>>, FileSize |-> 0, ContentType |-> <<>>, FilePath |-> path,
     BucketName |-> cfg.BucketName, UploadTime |-> "", DownloadTime |-> "",
     AccessTime |-> "<now>", UserAgent |-> "", IPAddress |-> "", ETag |-> "",
     Checksum |-> "", Additional |-> NilMap]

\* The PerformanceEventMetadata of a slow delete or lookup.
SlowMetadata(operation, threshold) ==
    [Operation |-> operation, Duration |-> "<duration>", FileSize |-> 0,
     Throughput |-> FromInt(0), Threshold |-> threshold]

\* UploadFile(ctx, req) of the decorator: the backend's UploadFile.
UploadFile(l, cfg, m, snk, req) ==
    LET up == MockUploadFile(m, req)
    IN  Outcome(up.m, snk, req.Metadata, 1, Returns(up.resp, up.err))

\* DeleteFile(ctx, path) of the decorator: the backend's DeleteFile.
DeleteFile(l, cfg, m, snk, path) ==
    LET d == MockDeleteFile(m, path)
    IN  Outcome(d.m, snk, NilMap, 1, Returns(NilResponse, d.err))

\* A mutant of DeleteFileWithAudit: a failed delete is tried a second time.
DeleteFileWithAuditRetries(l, cfg, m, snk, path, userID, duration) ==
    LET preDeleteMetadata == PathMetadata(cfg, path)
        first == MockDeleteFile(m, path)
        d == IF first.err # NilErr THEN MockDeleteFile(first.m, path) ELSE first
        n == IF first.err # NilErr THEN 2 ELSE 1
    IN  IF l.nil
        THEN Outcome(d.m, snk, NilMap, n, Panics(NilDeref))
        ELSE IF d.err # NilErr
        THEN Outcome(d.m, LogFileDelete(l, snk, userID, path, preDeleteMetadata, d.err),
                     NilMap, n, Returns(NilResponse, wrapError(d.err, "DELETE_FAILED")))
        ELSE LET logged == LogFileDelete(l, snk, userID, path, preDeleteMetadata, NilErr)
                 slow ==
                     IF duration > cfg.Timeout \div 2
                     THEN LogPerformanceEvent(l, logged, userID, "upload_slow",
                              SlowMetadata("delete", cfg.Timeout \div 2))
                     ELSE logged
             IN  Outcome(d.m, slow, NilMap, n, Returns(NilResponse, NilErr))

\* DeleteFileWithAudit(ctx, path, userID), duration being time.Since(startTime)
\* read when the backend call has returned.
DeleteFileWithAudit(l, cfg, m, snk, path, userID, duration) ==
    LET preDeleteMetadata == PathMetadata(cfg, path)
        d == MockDeleteFile(m, path)
    IN  IF l.nil
        THEN Outcome(d.m, snk, NilMap, 1, Panics(NilDeref))
        ELSE IF d.err # NilErr
        THEN Outcome(d.m, LogFileDelete(l, snk, userID, path, preDeleteMetadata, d.err),
                     NilMap, 1, Returns(NilResponse, wrapError(d.err, "DELETE_FAILED")))
        ELSE LET logged == LogFileDelete(l, snk, userID, path, preDeleteMetadata, NilErr)
                 slow ==
                     IF duration > cfg.Timeout \div 2
                     THEN LogPerformanceEvent(l, logged, userID, "upload_slow",
                              SlowMetadata("delete", cfg.Timeout \div 2))
                     ELSE logged
             IN  Outcome(d.m, slow, NilMap, 1, Returns(NilResponse, NilErr))

\* A mutant of GetFileInfo: a lookup is slow only above the full timeout.
GetFileInfoFullTimeout(l, cfg, m, snk, path, ctxValue, duration) ==
    LET userID == extractUserID(ctxValue)
        preAccessMetadata == PathMetadata(cfg, path)
        g == MockGetFileInfo(m, path)
    IN  IF l.nil
        THEN Outcome(g.m, snk, NilMap, 1, Panics(NilDeref))
        ELSE IF g.err # NilErr
        THEN Outcome(g.m, LogFileAccess(l, snk, userID, path, preAccessMetadata, g.err),
                     NilMap, 1, Returns([nil |-> TRUE], wrapError(g.err, "GET_INFO_FAILED")))
        ELSE LET logged == LogFileAccess(l, snk, userID, path, preAccessMetadata, NilErr)
                 slow ==
                     IF duration > cfg.Timeout
                     THEN LogPerformanceEvent(l, logged, userID, "upload_slow",
                              SlowMetadata("get_info", cfg.Timeout \div 4))
                     ELSE logged
             IN  Outcome(g.m, slow, NilMap, 1, Returns(g.info, NilErr))

\* GetFileInfo(ctx, path) of the decorator, duration being time.Since(startTime)
\* read when the backend call has returned.
GetFileInfo(l, cfg, m, snk, path, ctxValue, duration) ==
    LET userID == extractUserID(ctxValue)
        preAccessMetadata == PathMetadata(cfg, path)
        g == MockGetFileInfo(m, path)
    IN  IF l.nil
        THEN Outcome(g.m, snk, NilMap, 1, Panics(NilDeref))
        ELSE IF g.err # NilErr
        THEN Outcome(g.m, LogFileAccess(l, snk, userID, path, preAccessMetadata, g.err),
                     NilMap, 1, Returns([nil |-> TRUE], wrapError(g.err, "GET_INFO_FAILED")))
        ELSE LET logged == LogFileAccess(l, snk, userID, path, preAccessMetadata, NilErr)
                 slow ==
                     IF duration > cfg.Timeout \div 4
                     THEN LogPerformanceEvent(l, logged, userID, "upload_slow",
                              SlowMetadata("get_info", cfg.Timeout \div 4))
                     ELSE logged
             IN  Outcome(g.m, slow, NilMap, 1, Returns(g.info, NilErr))

\* LogConfigChange(ctx, userID, oldConfig, newConfig): the sink after the call.
LogConfigChange(l, snk, userID, oldConfig, newConfig) ==
    logEvent(l, snk,
        [EventType |-> "storage_config_changed", UserID |-> userID, Resource |-> "config",
         ResourceID |-> "", Success |-> TRUE, Reason |-> "Configuration updated",
         Metadata |-> ("old_config" :> oldConfig) @@ ("new_config" :> newConfig)
                      @@ ("service" :> l.service) @@ ("timestamp" :> "<now>")])

\* IsEnabled() of a non-nil logger.
IsEnabled(l) == l.hasSink

\* Close() of the decorator over the mock (hasClose) or over a backend that has
\* no Close method, as the S3 client: the outcome and the order of its steps.
Close(l, m, snk, hasClose) ==
    IF l.nil
    THEN Outcome(m, snk, NilMap, 0, Panics(NilDeref)) @@ [order |-> <<>>]
    ELSE LET logged ==
                 IF IsEnabled(l)
                 THEN LogConfigChange(l, snk, extractUserID([kind |-> "absent"]),
                          ("action" :> "client_shutdown") @@ ("service" :> "c.service"),
                          ("action" :> "client_shutdown") @@ ("service" :> "c.service")
                          @@ ("timestamp" :> "<now>"))
                 ELSE snk
             closed == IF hasClose THEN MockClose(m) ELSE [m |-> m, err |-> NilErr]
         IN  Outcome(closed.m, logged, NilMap, IF hasClose THEN 1 ELSE 0,
                     Returns(NilResponse, closed.err))
             @@ [order |-> (IF IsEnabled(l) THEN <<"LogConfigChange">> ELSE <<>>)
                           \o (IF hasClose THEN <<"client.Close">> ELSE <<>>)]

\* The object HealthCheck looks up, named after the date.
HealthCheckPath == "health-check-<date>"

\* HealthCheck(ctx) of the decorator over the mock (exposes) or over a backend
\* with the four core operations only, whose GetFileInfo is the mock's.
HealthCheck(m, snk, exposes) ==
    IF exposes
    THEN LET h == MockCheckHealth(m)
         IN  Outcome(h.m, snk, NilMap, 1, Returns(NilResponse, h.err))
             @@ [lookups |-> 0, lookupErr |-> NilErr]
    ELSE LET g == MockGetFileInfo(m, HealthCheckPath)
         IN  Outcome(g.m, snk, NilMap, 1, Returns(NilResponse, NilErr))
             @@ [lookups |-> 1, lookupErr |-> g.err]

NoCallYet == [op |-> "none"]

\* The decorator as constructed: NewAuditableRustFSClient(mock, logger, config, service).
InitAudit ==
    /\ pc = "idle"
    /\ config = DefaultRetryConfig
    /\ attempt = 0
    /\ lastError = NilErr
    /\ totalDelay = 0
    /\ delay = 0
    /\ result = NoResult
    /\ fnKind = [kind |-> "script"]
    /\ fnScript = <<>>
    /\ fnCalls = 0
    /\ ctxErr = NilErr
    /\ cancelAt = NeverCancelled
    /\ waitsDone = 0
    /\ delays = <<>>
    /\ mockAtEntry = NewMockRustFSClient
    /\ mock = NewMockRustFSClient
    /\ auditLogger \in AuditLoggers
    /\ clientConfig \in ClientConfigs
    /\ sink = <<>>
    /\ call = NoCallYet
    /\ args = NoCall
    /\ out = NoCall
    /\ mu = Unlocked
    /\ threads = NoThreads

\* An error of the backend that is already an application error, as the S3
\* client's GetFileInfo returns for a missing object.
BackendAppError == NewAppError(404, <<"FILE_NOT_FOUND">>, Injected)

\* SetFailureMode on the mock before the decorator is called.
AuditSetFailureMode ==
    /\ call = NoCallYet
    /\ \E b \in BOOLEAN, e \in {NilErr, Injected, BackendAppError} :
         mock' = MockSetFailureMode(mock, b, e)
    /\ UNCHANGED <<retryVars, auditVars, pureVars, lockVars>>

\* One call of UploadFileWithAudit.
CallUploadFileWithAudit ==
    /\ call = NoCallYet
    /\ \E req \in UploadRequests, userID \in UserIDs, validating \in 0..MaxValidating,
          duration \in 0..MaxElapsed :
         LET o == UploadFileWithAudit(auditLogger, clientConfig, mock, sink, req, userID, duration)
         IN  /\ validating <= duration
             /\ mock' = o.mock
             /\ sink' = o.sink
             /\ call' = [op |-> "UploadFileWithAudit", req |-> req, userID |-> userID,
                         duration |-> duration, backendTime |-> duration - validating,
                         mockBefore |-> mock,
                         reqMetadata |-> o.reqMetadata,
                         backendCalls |-> o.backendCalls, ret |-> o.ret]
    /\ UNCHANGED <<retryVars, auditLogger, clientConfig, pureVars, lockVars>>

\* WithFile on the mock's builder before the decorator is called.
AuditWithFile ==
    /\ call = NoCallYet
    /\ \E path \in Paths :
         /\ path \notin DOMAIN mock.files
         /\ mock' = MockWithFile(mock, path, 1024, ImagePng)
    /\ UNCHANGED <<retryVars, auditVars, pureVars, lockVars>>

\* One call of UploadFileWithAudit on a decorator built over the S3 client.
CallUploadFileWithAuditS3 ==
    /\ call = NoCallYet
    /\ mock = NewMockRustFSClient
    /\ \E req \in UploadRequests, userID \in UserIDs, validating \in 0..MaxValidating,
          duration \in 0..MaxElapsed, s3 \in S3Outcomes :
         LET o == UploadFileWithAuditOver(auditLogger, clientConfig, mock,
                      RustFSClientUploadFile(mock, req, s3), sink, req, userID, duration)
         IN  /\ validating <= duration
             /\ sink' = o.sink
             /\ call' = [op |-> "UploadFileWithAuditS3", req |-> req, userID |-> userID,
                         duration |-> duration, backendTime |-> duration - validating,
                         s3 |-> s3,
                         reqMetadata |-> o.reqMetadata,
                         backendCalls |-> o.backendCalls, ret |-> o.ret]
    /\ UNCHANGED <<retryVars, mock, auditLogger, clientConfig, pureVars, lockVars>>

\* One call of Close.
CallClose ==
    /\ call = NoCallYet
    /\ \E hasClose \in BOOLEAN :
         LET o == Close(auditLogger, mock, sink, hasClose)
         IN  /\ mock' = o.mock
             /\ sink' = o.sink
             /\ call' = [op |-> "Close", hasClose |-> hasClose, mockBefore |-> mock,
                         order |-> o.order, backendCalls |-> o.backendCalls, ret |-> o.ret]
    /\ UNCHANGED <<retryVars, auditLogger, clientConfig, pureVars, lockVars>>

\* One call of HealthCheck.
CallHealthCheck ==
    /\ call = NoCallYet
    /\ \E exposes \in BOOLEAN :
         LET o == HealthCheck(mock, sink, exposes)
         IN  /\ mock' = o.mock
             /\ sink' = o.sink
             /\ call' = [op |-> "HealthCheck", exposes |-> exposes, mockBefore |-> mock,
                         lookups |-> o.lookups, lookupErr |-> o.lookupErr,
                         backendCalls |-> o.backendCalls, ret |-> o.ret]
    /\ UNCHANGED <<retryVars, auditLogger, clientConfig, pureVars, lockVars>>

\* One call of the decorator's UploadFile.
CallUploadFile ==
    /\ call = NoCallYet
    /\ \E req \in UploadRequests :
         LET o == UploadFile(auditLogger, clientConfig, mock, sink, req)
         IN  /\ mock' = o.mock
             /\ sink' = o.sink
             /\ call' = [op |-> "UploadFile", req |-> req, mockBefore |-> mock,
                         backendCalls |-> o.backendCalls, ret |-> o.ret]
    /\ UNCHANGED <<retryVars, auditLogger, clientConfig, pureVars, lockVars>>

\* One call of the decorator's DeleteFile.
CallDeleteFile ==
    /\ call = NoCallYet
    /\ \E path \in Paths :
         LET o == DeleteFile(auditLogger, clientConfig, mock, sink, path)
         IN  /\ mock' = o.mock
             /\ sink' = o.sink
             /\ call' = [op |-> "DeleteFile", path |-> path, mockBefore |-> mock,
                         backendCalls |-> o.backendCalls, ret |-> o.ret]
    /\ UNCHANGED <<retryVars, auditLogger, clientConfig, pureVars, lockVars>>

\* One call of DeleteFileWithAudit.
CallDeleteFileWithAudit ==
    /\ call = NoCallYet
    /\ \E path \in Paths, userID \in UserIDs, duration \in 0..MaxElapsed :
         LET o == DeleteFileWithAudit(auditLogger, clientConfig, mock, sink, path, userID, duration)
         IN  /\ mock' = o.mock
             /\ sink' = o.sink
             /\ call' = [op |-> "DeleteFileWithAudit", path |-> path, userID |-> userID,
                         duration |-> duration, backendTime |-> duration,
                         mockBefore |-> mock, backendCalls |-> o.backendCalls, ret |-> o.ret]
    /\ UNCHANGED <<retryVars, auditLogger, clientConfig, pureVars, lockVars>>

\* One call of the decorator's GetFileInfo.
CallGetFileInfo ==
    /\ call = NoCallYet
    /\ \E path \in Paths, ctxValue \in CtxUserIDs, duration \in 0..MaxElapsed :
         LET o == GetFileInfo(auditLogger, clientConfig, mock, sink, path, ctxValue, duration)
         IN  /\ mock' = o.mock
             /\ sink' = o.sink
             /\ call' = [op |-> "GetFileInfo", path |-> path, ctxValue |-> ctxValue,
                         duration |-> duration, backendTime |-> duration,
                         mockBefore |-> mock, backendCalls |-> o.backendCalls, ret |-> o.ret]
    /\ UNCHANGED <<retryVars, auditLogger, clientConfig, pureVars, lockVars>>

NextAudit ==
    \/ AuditSetFailureMode
    \/ AuditWithFile
    \/ CallUploadFileWithAudit
    \/ CallUploadFileWithAuditS3
    \/ CallUploadFile
    \/ CallDeleteFile
    \/ CallDeleteFileWithAudit
    \/ CallGetFileInfo
    \/ CallClose
    \/ CallHealthCheck

SpecAudit == InitAudit /\ [][NextAudit]_vars

\* ------------------------------------------------------ the decorator's claims

UploadCalled == call.op = "UploadFileWithAudit"

\* The error is the one the decorator builds for a rejected request.
IsValidationError(err) ==
    /\ err # NilErr
    /\ err.type = "app"
    /\ err.msg = <<"RustFS operation failed: ", "VALIDATION_ERROR">>

\* C7: for every upload request whose declared size is greater than the
\* configured maxFileSize, UploadFileWithAudit never calls the backend's
\* UploadFile (the invocation count stays 0) and returns an error classified
\* as a validation error.
C7_OversizeNeverReachesBackend ==
    (UploadCalled /\ call.req.FileSize > clientConfig.MaxFileSize) =>
        /\ call.backendCalls = 0
        /\ Len(mock.uploads) = 0
        /\ call.ret.panic = ""
        /\ IsValidationError(call.ret.err)

\* The events in the sink of the given type.
EventsOfType(t) == {i \in 1..Len(sink) : sink[i].EventType = t}

\* The failure events in the sink.
FailureEvents == {i \in 1..Len(sink) : ~sink[i].Success}

\* The request of the end-to-end example, to any destination path, with or
\* without a metadata mapping, against a backend that succeeds.
IsSnapshotUpload ==
    /\ UploadCalled
    /\ call.req.Filename = SnapshotPng
    /\ call.req.ContentType = ImagePng
    /\ call.req.FileSize = 1024
    /\ ~call.mockBefore.shouldFail

\* C9: uploading through UploadFileWithAudit a valid request (declared size
\* 1024, name "snapshot.png", type "image/png", destination path P) against a
\* backend that always succeeds returns a result with path P and size 1024 and
\* causes exactly one success audit event to reach the sink, whose resource_id
\* is P; no failure event is emitted. Stated for a decorator whose audit
\* logger is present and has a sink.
C9_SnapshotUploadEndToEnd ==
    (IsSnapshotUpload /\ ~auditLogger.nil /\ auditLogger.hasSink) =>
        /\ call.ret.panic = ""
        /\ call.ret.err = NilErr
        /\ ~call.ret.result.nil
        /\ call.ret.result.Path = call.req.BucketPath
        /\ call.ret.result.Size = 1024
        /\ Cardinality(EventsOfType("file_uploaded")) = 1
        /\ \A i \in EventsOfType("file_uploaded") :
             sink[i].Success /\ sink[i].ResourceID = call.req.BucketPath
        /\ FailureEvents = {}

\* The audit logger is present and has a sink to emit to.
HasSink == ~auditLogger.nil /\ auditLogger.hasSink

\* The call is one of the audited operations of the decorator.
AuditedCall == call.op \in {"UploadFileWithAudit", "DeleteFileWithAudit", "GetFileInfo"}

\* The error of the step of the audited call that failed, nil when none did:
\* the validation error, else the error the backend returned.
StepError ==
    IF call.op = "UploadFileWithAudit"
    THEN IF validateUploadRequest(clientConfig, call.req) # NilErr
         THEN validateUploadRequest(clientConfig, call.req)
         ELSE MockUploadFile(call.mockBefore, call.req).err
    ELSE IF call.op = "DeleteFileWithAudit"
    THEN MockDeleteFile(call.mockBefore, call.path).err
    ELSE MockGetFileInfo(call.mockBefore, call.path).err

\* The stable code of the step of the audited call that failed.
StepCode ==
    IF call.op = "UploadFileWithAudit"
    THEN IF validateUploadRequest(clientConfig, call.req) # NilErr
         THEN "VALIDATION_ERROR" ELSE "UPLOAD_FAILED"
    ELSE IF call.op = "DeleteFileWithAudit" THEN "DELETE_FAILED"
    ELSE "GET_INFO_FAILED"

\* C11: every failing path of an audited decorator call (upload validation
\* failure, upload backend failure, delete backend failure, info backend
\* failure) returns exactly one non-nil classified error to the caller and
\* emits exactly one audit event, a failure event; no failure returns nil.
\* The event is counted at the sink when the logger has one.
C11_FailureOneErrorOneEvent ==
    (AuditedCall /\ StepError # NilErr) =>
        /\ call.ret.panic = ""
        /\ call.ret.err # NilErr
        /\ call.ret.err.type = "app"
        /\ HasSink => (Len(sink) = 1 /\ ~sink[1].Success)

\* C12: no audit event emitted by the decorator has an empty actor (UserID),
\* whether the actor is passed explicitly or resolved from the context.
C12_ActorNeverEmpty ==
    \A i \in 1..Len(sink) : sink[i].UserID # ""

\* C15: every call of UploadFile, UploadFileWithAudit, DeleteFile,
\* DeleteFileWithAudit and GetFileInfo on the auditable client that reaches an
\* outcome causes at least one audit event to be emitted to an enabled sink.
C15_AllOperationsAudited ==
    (/\ call.op \in {"UploadFile", "UploadFileWithAudit", "UploadFileWithAuditS3",
                    "DeleteFile", "DeleteFileWithAudit", "GetFileInfo"}
     /\ call.ret.panic = ""
     /\ HasSink) => Len(sink) >= 1

\* C16: when an upload is rejected because the file size limit is exceeded,
\* the audit event emitted is of kind storage_quota_exceeded.
C16_OversizeIsQuotaExceeded ==
    (UploadCalled /\ call.req.FileSize > clientConfig.MaxFileSize /\ HasSink) =>
        /\ Len(sink) = 1
        /\ sink[1].EventType = "storage_quota_exceeded"

\* C17 as stated: on failure the decorator returns an error whose code is the
\* stable code of the failing step and whose cause is the original error, for
\* every backend error value, application errors included.
C17_StableCodeAndCause ==
    (AuditedCall /\ call.ret.err # NilErr) =>
        /\ call.ret.err.type = "app"
        /\ call.ret.err.msg = <<"RustFS operation failed: ", StepCode>>
        /\ call.ret.err.cause = StepError

\* C17 amended: the error a failing audited call returns is the stable code
\* of the failing step with the original error as its cause when the original
\* error is not an application error; an original error that is already an
\* application error is returned as it is, with its own code and cause.
C17_StableCodeUnlessAppError ==
    (AuditedCall /\ call.ret.err # NilErr) =>
        IF StepError.type = "app"
        THEN call.ret.err = StepError
        ELSE call.ret.err = NewAppError(500, <<"RustFS operation failed: ", StepCode>>, StepError)

C17_Witness ==
    /\ call.op = "GetFileInfo"
    /\ call.mockBefore.shouldFail
    /\ call.mockBefore.failError = BackendAppError
    /\ call.ret.err = BackendAppError

\* C18: on success UploadFileWithAudit returns the backend's result unchanged:
\* every field of the returned result, its metadata mapping included, is what
\* the backend produced, also when the result shares the request's map.
C18_ResultUnchanged ==
    (UploadCalled /\ call.ret.panic = "" /\ call.ret.err = NilErr) =>
        /\ call.ret.result = MockUploadFile(call.mockBefore, call.req).resp
        /\ call.ret.result.Metadata = "req.Metadata" => call.reqMetadata = call.req.Metadata

\* The error code of the event logUploadError emits for a backend failure.
UploadFailureEventCode ==
    logUploadError(NewRustFSAuditLogger("rustfs-client", TRUE, FALSE), <<>>, "user-1",
                   [Filename |-> SnapshotPng, FileSize |-> 1024, ContentType |-> ImagePng,
                    FilePath |-> "docs/a"], Injected)[1].Metadata["error_code"]

\* C19: a validation failure in UploadFileWithAudit emits one audit failure
\* event whose error code identifies it as a validation error, distinct from
\* the code used for a backend upload failure, before any backend call.
C19_ValidationEventCode ==
    (UploadCalled /\ validateUploadRequest(clientConfig, call.req) # NilErr /\ HasSink) =>
        /\ call.backendCalls = 0
        /\ Len(sink) = 1
        /\ ~sink[1].Success
        /\ sink[1].Metadata["error_code"] # UploadFailureEventCode

\* The file name contains a path separator.
HasSeparator(filename) == ContainsChar(filename, "/") \/ ContainsChar(filename, "\\")

\* The file name contains the traversal sequence "..".
HasTraversal(filename) ==
    \E i \in 1..(Len(filename) - 1) : filename[i] = "." /\ filename[i + 1] = "."

\* The file name is a reserved device name, with or without an extension, in
\* any letter case.
IsDeviceName(filename) ==
    \E n \in ReservedNames :
        LET up == ToUpper(filename)
        IN  up = n \/ (Len(up) > Len(n) /\ SubSeq(up, 1, Len(n)) = n /\ up[Len(n) + 1] = ".")

\* C20: UploadFileWithAudit rejects, without touching the backend, every
\* request whose file name contains a path separator, contains a traversal
\* sequence, or is a reserved device name.
C20_UnsafeNamesRejected ==
    (UploadCalled /\ (HasSeparator(call.req.Filename) \/ HasTraversal(call.req.Filename)
                      \/ IsDeviceName(call.req.Filename))) =>
        /\ call.backendCalls = 0
        /\ mock.uploads = call.mockBefore.uploads
        /\ call.ret.result.nil

\* A call of UploadFileWithAudit over either backend returned a result.
UploadSucceeded ==
    /\ call.op \in {"UploadFileWithAudit", "UploadFileWithAuditS3"}
    /\ call.ret.panic = ""
    /\ call.ret.err = NilErr

\* C21: for every successful upload through the decorator, with the
\* in-memory backend or the S3 backend, the returned result's path equals
\* the request's destination path.
C21_ResultPathIsDestination ==
    UploadSucceeded =>
        /\ ~call.ret.result.nil
        /\ call.ret.result.Path = call.req.BucketPath

C21_Witness ==
    /\ UploadSucceeded
    /\ call.op = "UploadFileWithAuditS3"
    /\ call.req.FileSize = 0
    /\ call.ret.result.Path = "docs/a"
    /\ call.ret.result.Size = 1024

\* ------------------------------------- MockRustFSClient called by goroutines

\* The request a goroutine uploads to path.
MockRequest(path) ==
    [Filename |-> SnapshotPng, ContentType |-> ImagePng, FileSize |-> 1024,
     BucketPath |-> path, Metadata |-> NilMap]

\* The calls the goroutines make.
MockCalls ==
    {[op |-> o, path |-> p] : o \in {"UploadFile", "DeleteFile", "GetFileInfo"}, p \in Paths}
    \cup {[op |-> "CopyFile", path |-> p, dest |-> q] : p, q \in Paths}
    \cup {[op |-> "ListFiles", limit |-> n] : n \in ListLimits}
    \cup {[op |-> o] : o \in {"CheckHealth", "Reset", "Close"}}

\* The methods that take m.mu.Lock(); the others take m.mu.RLock().
TakesLock(c) == c.op \in {"UploadFile", "DeleteFile", "CopyFile", "Reset", "Close"}

\* The methods that start with the test of m.shouldFail.
ChecksFailure(c) == c.op \notin {"Reset", "Close"}

\* What the method does after the test of m.shouldFail found it false.
MockCallBody(m, c) ==
    LET off == [m EXCEPT !.shouldFail = FALSE]
        keep(r) == [m |-> [r.m EXCEPT !.shouldFail = m.shouldFail], err |-> r.err]
    IN  CASE c.op = "UploadFile" -> keep(MockUploadFile(off, MockRequest(c.path)))
          [] c.op = "DeleteFile" -> keep(MockDeleteFile(off, c.path))
          [] c.op = "GetFileInfo" -> keep(MockGetFileInfo(off, c.path))
          [] c.op = "CopyFile" -> keep(MockCopyFile(off, c.path, c.dest))
          [] c.op = "ListFiles" -> keep(MockListFiles(off, c.limit))
          [] c.op = "CheckHealth" -> keep(MockCheckHealth(off))
          [] c.op = "Reset" -> [m |-> MockReset(m), err |-> NilErr]
          [] c.op = "Close" -> MockClose(m)

\* m.mu.Unlock() or m.mu.RUnlock() by goroutine t.
Released(t) ==
    [writer |-> IF mu.writer = t THEN 0 ELSE mu.writer, readers |-> mu.readers \ {t}]

\* SetFailureMode(true, err) before the goroutines start.
MockArm ==
    /\ threads = NoThreads
    /\ ~mock.shouldFail
    /\ mock' = MockSetFailureMode(mock, TRUE, Injected)
    /\ UNCHANGED <<retryVars, auditVars, pureVars, lockVars>>

\* MockRustFSClientBuilder.WithFile before the goroutines start.
MockSeed ==
    /\ threads = NoThreads
    /\ \E path \in Paths :
         /\ path \notin DOMAIN mock.files
         /\ mock' = MockWithFile(mock, path, 4096, ApplicationPdf)
    /\ UNCHANGED <<retryVars, auditVars, pureVars, lockVars>>

\* Goroutine t calls a method, which takes the lock or the read lock.
MockEnter(t) ==
    /\ threads[t] = Resting
    /\ \E c \in MockCalls :
         /\ IF TakesLock(c)
            THEN mu = Unlocked /\ mu' = [mu EXCEPT !.writer = t]
            ELSE mu.writer = 0 /\ mu' = [mu EXCEPT !.readers = @ \cup {t}]
         /\ threads' = [threads EXCEPT
                ![t] = [pc |-> IF ChecksFailure(c) THEN "check" ELSE "body", call |-> c]]
    /\ UNCHANGED <<retryVars, mock, auditVars, pureVars>>

\* if m.shouldFail
MockReadShouldFail(t) ==
    /\ threads[t].pc = "check"
    /\ threads' = [threads EXCEPT ![t].pc = IF mock.shouldFail THEN "reset" ELSE "body"]
    /\ UNCHANGED <<retryVars, mock, auditVars, pureVars, mu>>

\* m.shouldFail = false
MockResetShouldFail(t) ==
    /\ threads[t].pc = "reset"
    /\ mock' = [mock EXCEPT !.shouldFail = FALSE]
    /\ threads' = [threads EXCEPT ![t].pc = "fail"]
    /\ UNCHANGED <<retryVars, auditVars, pureVars, mu>>

\* return m.failError, and the deferred unlock.
MockReturnFailError(t) ==
    /\ threads[t].pc = "fail"
    /\ threads' = [threads EXCEPT
           ![t] = [pc |-> "done", call |-> threads[t].call, err |-> mock.failError,
                   failed |-> TRUE]]
    /\ mu' = Released(t)
    /\ UNCHANGED <<retryVars, mock, auditVars, pureVars>>

\* The rest of the method, its return and the deferred unlock.
MockReturn(t) ==
    /\ threads[t].pc = "body"
    /\ LET o == MockCallBody(mock, threads[t].call)
       IN  /\ mock' = o.m
           /\ threads' = [threads EXCEPT
                  ![t] = [pc |-> "done", call |-> threads[t].call, err |-> o.err,
                          failed |-> FALSE]]
    /\ mu' = Released(t)
    /\ UNCHANGED <<retryVars, auditVars, pureVars>>

InitMock ==
    /\ RestIdle
    /\ args = NoCall
    /\ out = NoCall

NextMock ==
    \/ MockArm
    \/ MockSeed
    \/ \E t \in Threads : MockEnter(t)
    \/ \E t \in Threads : MockReadShouldFail(t)
    \/ \E t \in Threads : MockResetShouldFail(t)
    \/ \E t \in Threads : MockReturnFailError(t)
    \/ \E t \in Threads : MockReturn(t)

SpecMock == InitMock /\ [][NextMock]_vars

\* Goroutine t is at a statement that writes a field of the mock.
AboutToWrite(t) ==
    \/ threads[t].pc = "reset"
    \/ /\ threads[t].pc = "body"
       /\ threads[t].call.op \in {"UploadFile", "DeleteFile", "CopyFile", "Reset", "Close"}

\* C22: in the in-memory backend every mutation of files, uploads, deletes,
\* shouldFail and failError is performed by a goroutine that holds the
\* exclusive lock; a goroutine holding only the read lock writes nothing.
C22_WritesHoldExclusiveLock ==
    \A t \in Threads : AboutToWrite(t) => mu.writer = t

\* The lookup of HealthCheck failed, and not because the object is missing.
TransportFailure ==
    /\ call.lookupErr # NilErr
    /\ call.mockBefore.shouldFail
    /\ call.mockBefore.failError = Injected

\* C23: HealthCheck returns exactly the backend's CheckHealth result when the
\* backend exposes one; when it does not, HealthCheck performs one GetFileInfo
\* lookup, reports healthy when the lookup succeeds or fails with not-found,
\* and reports unhealthy when the lookup fails at transport level.
C23_HealthCheckResult ==
    call.op = "HealthCheck" =>
        /\ call.ret.panic = ""
        /\ call.exposes =>
               /\ call.lookups = 0
               /\ call.ret.err = MockCheckHealth(call.mockBefore).err
        /\ ~call.exposes =>
               /\ call.lookups = 1
               /\ (call.ret.err = NilErr) <=> ~TransportFailure

\* C24: Close on the decorator first emits one configuration-change event
\* recording the shutdown and only then calls the backend's Close if the
\* backend has one, returning that call's result; without a backend Close it
\* returns nil. The event is counted at the sink when the logger has one.
C24_EventThenClose ==
    call.op = "Close" =>
        /\ call.ret.panic = ""
        /\ call.ret.err = (IF call.hasClose THEN MockClose(call.mockBefore).err ELSE NilErr)
        /\ mock = (IF call.hasClose THEN MockClose(call.mockBefore).m ELSE call.mockBefore)
        /\ HasSink =>
               /\ Len(sink) = 1
               /\ sink[1].EventType = "storage_config_changed"
               /\ sink[1].Metadata["new_config"]["action"] = "client_shutdown"
               /\ call.order = <<"LogConfigChange">>
                               \o (IF call.hasClose THEN <<"client.Close">> ELSE <<>>)

\* The audited operations of the decorator, over either backend.
AuditedOps ==
    {"UploadFileWithAudit", "UploadFileWithAuditS3", "DeleteFileWithAudit", "GetFileInfo"}

IsUploadOp == call.op \in {"UploadFileWithAudit", "UploadFileWithAuditS3"}

\* The audited call passed validation, if it has one, and called the backend.
BackendReached ==
    /\ call.op \in AuditedOps
    /\ IsUploadOp => validateUploadRequest(clientConfig, call.req) = NilErr

\* What the backend returned to the audited call.
BackendOutcome ==
    CASE call.op = "UploadFileWithAudit" ->
             LET u == MockUploadFile(call.mockBefore, call.req)
             IN  [result |-> u.resp, err |-> u.err]
      [] call.op = "UploadFileWithAuditS3" ->
             LET u == RustFSClientUploadFile(NewMockRustFSClient, call.req, call.s3)
             IN  [result |-> u.resp, err |-> u.err]
      [] call.op = "DeleteFileWithAudit" ->
             [result |-> NilResponse, err |-> MockDeleteFile(call.mockBefore, call.path).err]
      [] call.op = "GetFileInfo" ->
             LET g == MockGetFileInfo(call.mockBefore, call.path)
             IN  [result |-> g.info, err |-> g.err]

BackendFailed == BackendReached /\ BackendOutcome.err # NilErr

\* The duration above which the audited call is reported slow.
SlowThreshold ==
    IF IsUploadOp THEN clientConfig.Timeout
    ELSE IF call.op = "DeleteFileWithAudit" THEN clientConfig.Timeout \div 2
    ELSE clientConfig.Timeout \div 4

\* The kind of the success event of the audited call.
SuccessKind ==
    IF IsUploadOp THEN "file_uploaded"
    ELSE IF call.op = "DeleteFileWithAudit" THEN "file_deleted"
    ELSE "file_accessed"

\* The audited call returned to its caller without an error.
CallSucceeded ==
    /\ call.op \in AuditedOps
    /\ call.ret.panic = ""
    /\ call.ret.err = NilErr

C26_FailureEventShape ==
    (BackendFailed /\ HasSink) =>
        /\ Len(sink) = 1
        /\ sink[1].EventType = "storage_error"
        /\ ~sink[1].Success
        /\ sink[1].Reason = ErrorText(BackendOutcome.err)
        /\ "error_code" \in DOMAIN sink[1].Metadata
        /\ "retry_count" \in DOMAIN sink[1].Metadata
        /\ sink[1].Metadata["retry_count"] = 0

\* C27: for every audited operation that succeeds, the primary (first) event
\* has success flag true and the kind of the operation (file_uploaded,
\* file_deleted, file_accessed); and for every audited call that returns, the
\* primary event's success flag is true if and only if it returns no error.
\* The event is looked for at the sink when the logger has one.
C27_PrimaryEventMatchesOutcome ==
    (call.op \in AuditedOps /\ call.ret.panic = "" /\ HasSink) =>
        /\ Len(sink) >= 1
        /\ sink[1].Success <=> (call.ret.err = NilErr)
        /\ CallSucceeded => sink[1].EventType = SuccessKind

C27_Witness ==
    /\ CallSucceeded
    /\ HasSink
    /\ call.op = "GetFileInfo"
    /\ ~call.ret.result.nil
    /\ Len(sink) = 1
    /\ sink[1].EventType = "file_accessed"
    /\ sink[1].Success

\* The number of invocations a scripted operation gets when nothing is
\* cancelled: up to the first success, else the attempt budget (none when
\* the budget is not positive).
ExpectedInvocations ==
    LET wins == {k \in 1..config.MaxAttempts : fnScript[k] = NilErr}
    IN  IF wins = {} THEN (IF config.MaxAttempts > 0 THEN config.MaxAttempts ELSE 0)
        ELSE CHOOSE k \in wins : \A j \in wins : k <= j

\* C28: the executor retries unconditionally: after a failed invocation that
\* is not the last allowed one, and with no cancellation, it invokes the
\* operation again whether or not IsRetryableError calls the error retryable;
\* the number of invocations is fixed by maxAttempts and the position of the
\* first success, and cancellation can only cut it short.
C28_RetriesWhateverTheClass ==
    (fnKind.kind = "script" /\ pc \in Returned) =>
        /\ fnCalls <= ExpectedInvocations
        /\ cancelAt = NeverCancelled => fnCalls = ExpectedInvocations

C28_Witness ==
    /\ fnKind.kind = "script"
    /\ pc \in Returned
    /\ cancelAt = NeverCancelled
    /\ config.MaxAttempts = 3
    /\ ~IsRetryableError(fnScript[1])
    /\ IsRetryableError(fnScript[2])
    /\ fnScript[3] = NilErr
    /\ fnCalls = 3

\* C29: the duration the decorator measures for an audited call spans only
\* the backend call: the time spent validating the request before it is not
\* part of the duration used for slow-operation detection.
C29_DurationIsBackendTime ==
    call.op \in AuditedOps =>
        /\ call.duration = call.backendTime
        /\ (CallSucceeded /\ HasSink) =>
               (Len(sink) = 2 <=> call.backendTime > SlowThreshold)

\* C30: the decorator never retries: each call of UploadFileWithAudit,
\* DeleteFileWithAudit or GetFileInfo invokes the corresponding backend
\* operation exactly once when validation passes and not at all when it
\* fails, whatever the backend returns; the in-memory backend is left as one
\* invocation leaves it.
C30_BackendCalledAtMostOnce ==
    call.op \in AuditedOps =>
        /\ call.backendCalls = (IF BackendReached THEN 1 ELSE 0)
        /\ call.op = "UploadFileWithAudit" =>
               mock = (IF BackendReached THEN MockUploadFile(call.mockBefore, call.req).m
                       ELSE call.mockBefore)
        /\ call.op = "DeleteFileWithAudit" =>
               mock = MockDeleteFile(call.mockBefore, call.path).m
        /\ call.op = "GetFileInfo" =>
               mock = MockGetFileInfo(call.mockBefore, call.path).m

C30_Witness ==
    /\ call.op = "DeleteFileWithAudit"
    /\ call.mockBefore.shouldFail
    /\ call.mockBefore.failError = Injected
    /\ call.ret.panic = ""
    /\ call.ret.err # NilErr
    /\ call.backendCalls = 1
    /\ Len(mock.deletes) = 0

RECURSIVE SumOf(_)
SumOf(seq) == IF seq = <<>> THEN 0 ELSE Head(seq) + SumOf(Tail(seq))

\* C31: the executor computes and waits a delay only between attempts, never
\* after the final allowed attempt: on exhaustion after n failed attempts
\* exactly n-1 delays were computed, and in every outcome TotalDelay is the sum
\* of the delays computed for the waits that were started, a wait cut short by
\* cancellation counted with its full delay.
C31_DelaysOnlyBetweenAttempts ==
    /\ Len(delays) <= fnCalls
    /\ config.MaxAttempts >= 1 => Len(delays) <= config.MaxAttempts - 1
    /\ pc \in Returned =>
           /\ result.TotalDelay = SumOf(delays)
           /\ Len(delays) = waitsDone + (IF pc = "return85" THEN 1 ELSE 0)
    /\ (pc = "return96" /\ config.MaxAttempts >= 1) =>
           /\ fnCalls = config.MaxAttempts
           /\ Len(delays) = config.MaxAttempts - 1

C31_Witness ==
    /\ pc = "return96"
    /\ config.MaxAttempts = 3
    /\ fnCalls = 3
    /\ Len(delays) = 2
    /\ delays[1] < delays[2]
    /\ result.TotalDelay = delays[1] + delays[2]

\* ------------------------------------------------------ RetryWithFixedDelay

\* The largest delay argument, in ticks; from 5 ticks on a quarter of the
\* delay is more than one tick.
MaxFixedDelay == 5

\* RetryWithFixedDelayWithContext(ctx, fn, maxAttempts, delay) builds the
\* policy {maxAttempts, delay, 1.0} and enters the executor with it
\* (RetryWithFixedDelay does the same with context.Background()).
RetryWithFixedDelayWithContext ==
    /\ pc = "idle"
    /\ \E maxAttempts \in 0..MaxAttemptsBound, d \in 1..MaxFixedDelay, ctx0 \in {NilErr, Canceled} :
         LET c == [MaxAttempts |-> maxAttempts, Delay |-> d, Backoff |-> Rat(1, 1)]
         IN  /\ config' = c
             /\ ctxErr' = ctx0
             /\ cancelAt' = IF ctx0 = NilErr THEN NeverCancelled
                            ELSE [pc |-> "idle", attempt |-> 0, fnCalls |-> 0, waitsDone |-> 0]
             /\ \E r \in FnOutcomes :
                  fnScript' = [i \in 1..maxAttempts |-> IF i = maxAttempts THEN r ELSE PlainErr("Read Timeout")]
             /\ fnKind' = [kind |-> "script"]
    /\ attempt' = 0
    /\ lastError' = NilErr
    /\ totalDelay' = 0
    /\ mockAtEntry' = mock
    /\ pc' = "loop"
    /\ UNCHANGED <<delay, result, fnCalls, waitsDone, delays, mock, auditVars, pureVars, lockVars>>

NextFixed ==
    \/ RetryWithFixedDelayWithContext
    \/ RetryCtxCancelled
    \/ RetryCtxOk
    \/ RetryCallFn
    \/ RetryFnReturns
    \/ RetryTimerFires
    \/ RetryCtxDone
    \/ RetryExhausted
    \/ CancelCtx

SpecFixed == InitRetry /\ [][NextFixed]_vars

\* C32: RetryWithFixedDelay and RetryWithFixedDelayWithContext wait a fixed
\* delay: every wait between two consecutive attempts lasts exactly the delay
\* argument.
C32_FixedDelayIsExact ==
    \A i \in DOMAIN delays : delays[i] = config.Delay

\* ------------------------------------------------------------- termination

\* The goroutine running the executor is scheduled: its own statements are
\* executed once they can be.
RetryStep ==
    \/ RetryCtxCancelled
    \/ RetryCtxOk
    \/ RetryCallFn
    \/ RetryExhausted

\* Line 61: the invocation of fn that is running returns (the step that
\* leaves "running" is RetryFnReturns).
FnInvocationReturns ==
    /\ pc = "running"
    /\ pc' \in {"return63", "select", "loop"}

\* The executor under fairness: the goroutine runs, every invocation of fn
\* returns, the timer of time.After fires, and the Done channel of a cancelled
\* context is received from unless the timer's case is taken.
SpecRetryFair ==
    /\ InitRetry
    /\ [][NextRetry]_vars
    /\ WF_vars(RetryStep)
    /\ WF_pc(FnInvocationReturns)
    /\ WF_vars(RetryTimerFires)
    /\ WF_vars(RetryCtxDone)

\* C33: for every finite maxAttempts and every operation whose invocations
\* each return, the executor, once called, eventually returns an outcome.
C33_ExecutorTerminates ==
    (pc # "idle") ~> (pc \in Returned)

C33_Witness ==
    /\ pc = "return96"
    /\ config.MaxAttempts = MaxAttemptsBound
    /\ waitsDone = MaxAttemptsBound - 1
    /\ result.Attempts = MaxAttemptsBound

\* ------------------------------------------------------- audit disabled

\* Audit is disabled: the decorator has no audit logger (the factory passes a
\* nil logger when EnableAudit is false), or its logger has no sink.
AuditDisabled == auditLogger.nil \/ ~auditLogger.hasSink

\* C34: with audit disabled, UploadFileWithAudit, DeleteFileWithAudit,
\* GetFileInfo and Close still run the backend operation and return its result
\* or its classified error normally, emitting no event and never aborting.
C34_DisabledAuditIsHarmless ==
    (AuditDisabled /\ call.op \in AuditedOps \cup {"Close"}) =>
        /\ call.ret.panic = ""
        /\ sink = <<>>
        /\ BackendReached =>
               /\ call.backendCalls = 1
               /\ (call.ret.err = NilErr) <=> (BackendOutcome.err = NilErr)
        /\ (call.op = "Close" /\ call.hasClose) => call.backendCalls = 1

\* ---------------------------------------------------------- nil Metadata

\* An upload through the decorator of a valid request that carries no
\* metadata mapping, on which the backend succeeds; the decorator has a logger.
NilMetadataUpload ==
    /\ IsUploadOp
    /\ call.req.Metadata.nil
    /\ validateUploadRequest(clientConfig, call.req) = NilErr
    /\ BackendOutcome.err = NilErr
    /\ ~BackendOutcome.result.nil
    /\ ~auditLogger.nil

\* C35: UploadFileWithAudit on a valid request whose Metadata is nil, against
\* a succeeding backend, completes normally: it returns the backend's result
\* and emits the success event, as it does for an empty map.
C35_NilMetadataUploadCompletes ==
    NilMetadataUpload =>
        /\ call.ret.panic = ""
        /\ call.ret.err = NilErr
        /\ call.ret.result = BackendOutcome.result
        /\ auditLogger.hasSink =>
               /\ Cardinality(EventsOfType("file_uploaded")) = 1
               /\ \A i \in EventsOfType("file_uploaded") : sink[i].Success

\* ------------------------------------- MockRustFSClient used sequentially

\* The number of calls one caller makes on the mock, one after the other.
MaxOps == 3

\* A whole method of the mock called by the only caller: the mock after the
\* call, the error and, for GetFileInfo, the file info returned.
MockCall(m, c) ==
    LET noInfo == [nil |-> TRUE]
    IN  CASE c.op = "UploadFile" ->
                 LET u == MockUploadFile(m, MockRequest(c.path))
                 IN  [m |-> u.m, err |-> u.err, info |-> noInfo]
          [] c.op = "DeleteFile" ->
                 LET d == MockDeleteFile(m, c.path)
                 IN  [m |-> d.m, err |-> d.err, info |-> noInfo]
          [] c.op = "GetFileInfo" -> MockGetFileInfo(m, c.path)
          [] c.op = "CopyFile" ->
                 LET k == MockCopyFile(m, c.path, c.dest)
                 IN  [m |-> k.m, err |-> k.err, info |-> noInfo]
          [] c.op = "ListFiles" ->
                 LET l == MockListFiles(m, c.limit)
                 IN  [m |-> l.m, err |-> l.err, info |-> noInfo]
          [] c.op = "CheckHealth" ->
                 LET h == MockCheckHealth(m)
                 IN  [m |-> h.m, err |-> h.err, info |-> noInfo]
          [] c.op = "Reset" -> [m |-> MockReset(m), err |-> NilErr, info |-> noInfo]
          [] c.op = "Close" ->
                 LET k == MockClose(m)
                 IN  [m |-> k.m, err |-> k.err, info |-> noInfo]

\* What the caller knows from the calls made so far: their number, the size
\* and type last stored under each path and not deleted or reset since, the
\* successful uploads and deletes since the last Reset or Close, and whether
\* SetFailureMode(true, e) was the last thing done, with its e.
NothingStored == [p \in {} |-> [Size |-> 0, ContentType |-> <<>>]]

SeqStart ==
    [fn |-> "sequence", n |-> 0, stored |-> NothingStored, uploads |-> 0, deletes |-> 0,
     armed |-> FALSE, failWith |-> NilErr]

\* The caller's knowledge after call c returned err.
SeqAfter(k, c, err) ==
    LET next == [k EXCEPT !.n = @ + 1, !.armed = FALSE]
    IN  IF c.op \in {"Reset", "Close"}
        THEN [next EXCEPT !.stored = NothingStored, !.uploads = 0, !.deletes = 0]
        ELSE IF k.armed \/ err # NilErr
        THEN next
        ELSE CASE c.op = "UploadFile" ->
                      [next EXCEPT !.uploads = @ + 1,
                                   !.stored = Overwrite(@, [p \in {c.path} |->
                                                  [Size |-> 1024, ContentType |-> ImagePng]])]
               [] c.op = "DeleteFile" ->
                      [next EXCEPT !.deletes = @ + 1,
                                   !.stored = [p \in (DOMAIN @) \ {c.path} |-> @[p]]]
               [] c.op = "CopyFile" ->
                      [next EXCEPT !.stored = Overwrite(@, [p \in {c.dest} |-> @[c.path]])]
               [] OTHER -> next

\* SetFailureMode(shouldFail, err) by the caller.
SeqSetFailureMode ==
    /\ args.n < MaxOps
    /\ \E b \in BOOLEAN, e \in {NilErr, Injected} :
         /\ mock' = MockSetFailureMode(mock, b, e)
         /\ call' = [op |-> "SetFailureMode", mockBefore |-> mock]
         /\ args' = [args EXCEPT !.n = @ + 1, !.armed = b, !.failWith = e]
    /\ UNCHANGED <<retryVars, auditLogger, clientConfig, sink, out, lockVars>>

\* MockRustFSClientBuilder.WithFile(path, 4096, "application/pdf") by the caller.
SeqWithFile ==
    /\ args.n < MaxOps
    /\ \E path \in Paths :
         /\ mock' = MockWithFile(mock, path, 4096, ApplicationPdf)
         /\ call' = [op |-> "WithFile", path |-> path, mockBefore |-> mock]
         /\ args' = [args EXCEPT !.n = @ + 1,
                                 !.stored = Overwrite(@, [p \in {path} |->
                                                [Size |-> 4096, ContentType |-> ApplicationPdf]])]
    /\ UNCHANGED <<retryVars, auditLogger, clientConfig, sink, out, lockVars>>

\* One method of the mock, called and returned before the next call is made.
SeqCall ==
    /\ args.n < MaxOps
    /\ \E c \in MockCalls :
         LET o == MockCall(mock, c)
         IN  /\ mock' = o.m
             /\ call' = [op |-> c.op, c |-> c, mockBefore |-> mock, known |-> args,
                         err |-> o.err, info |-> o.info]
             /\ args' = SeqAfter(args, c, o.err)
    /\ UNCHANGED <<retryVars, auditLogger, clientConfig, sink, out, lockVars>>

InitSeq ==
    /\ RestIdle
    /\ args = SeqStart
    /\ out = NoCall

NextSeq ==
    \/ SeqSetFailureMode
    \/ SeqWithFile
    \/ SeqCall

SpecSeq == InitSeq /\ [][NextSeq]_vars

\* The call just made is one of the methods that test the failure mode.
FailureCheckingCall ==
    call.op \in {"UploadFile", "DeleteFile", "GetFileInfo", "CheckHealth", "ListFiles", "CopyFile"}

\* C36: in sequential use SetFailureMode(true, e) makes exactly the next
\* backend operation (upload, delete, info, health, list or copy) fail with e;
\* that operation leaves files, uploads and deletes unchanged and disarms the
\* failure mode, so the operations after it behave normally until it is armed
\* again.
C36_FailureModeIsOneShot ==
    FailureCheckingCall =>
        /\ ~mock.shouldFail
        /\ call.known.armed =>
               /\ call.err = call.known.failWith
               /\ mock.files = call.mockBefore.files
               /\ mock.uploads = call.mockBefore.uploads
               /\ mock.deletes = call.mockBefore.deletes
        /\ ~call.known.armed =>
               /\ call.op \in {"UploadFile", "DeleteFile", "CheckHealth", "ListFiles"} =>
                      call.err = NilErr
               /\ call.op \in {"GetFileInfo", "CopyFile"} =>
                      ((call.err = NilErr) <=> (call.c.path \in DOMAIN call.mockBefore.files))

C36_Witness ==
    /\ call.op = "CheckHealth"
    /\ ~call.known.armed
    /\ call.known.failWith = Injected
    /\ call.known.n = 2
    /\ call.err = NilErr

\* The goroutines that found the failure mode armed and returned its error.
ObservedFailure == {t \in Threads : threads[t].pc = "done" /\ threads[t].failed}

\* C37: when the failure mode is armed once and several backend operations
\* run concurrently, at most one of them observes the failure: the mode is
\* consumed atomically in every interleaving, GetFileInfo, CheckHealth and
\* ListFiles included.
C37_FailureConsumedOnce ==
    Cardinality(ObservedFailure) <= 1

\* The call just made found the failure mode off and returned no error.
SucceededCall(op) ==
    /\ call.op = op
    /\ ~call.known.armed
    /\ call.err = NilErr

\* C38: after any sequence of successful operations of the in-memory backend,
\* GetFileInfo(p) succeeds exactly when p was stored (by upload, copy or
\* seeding) and not deleted or reset since, and returns the size and type of the
\* most recent store; DeleteFile of a path that is not stored returns nil and
\* is still appended to deletes; uploads and deletes grow by exactly one per
\* successful call and are emptied only by Reset or Close.
C38_InfoFollowsStores ==
    /\ Len(mock.uploads) = args.uploads
    /\ Len(mock.deletes) = args.deletes
    /\ (call.op = "GetFileInfo" /\ ~call.known.armed) =>
           /\ (call.err = NilErr) <=> (call.c.path \in DOMAIN call.known.stored)
           /\ call.err = NilErr =>
                  /\ call.info.Size = call.known.stored[call.c.path].Size
                  /\ call.info.ContentType = call.known.stored[call.c.path].ContentType
    /\ (call.op = "DeleteFile" /\ ~call.known.armed) =>
           /\ call.err = NilErr
           /\ mock.deletes = Append(call.mockBefore.deletes, call.c.path)
    /\ SucceededCall("UploadFile") =>
           Len(mock.uploads) = Len(call.mockBefore.uploads) + 1
    /\ (FailureCheckingCall /\ call.op # "UploadFile") =>
           mock.uploads = call.mockBefore.uploads
    /\ (FailureCheckingCall /\ call.op # "DeleteFile") =>
           mock.deletes = call.mockBefore.deletes

C38_Witness ==
    /\ SucceededCall("DeleteFile")
    /\ call.c.path \notin DOMAIN call.known.stored
    /\ call.known.uploads = 1
    /\ call.known.deletes = 1
    /\ Len(mock.deletes) = 2
    /\ Len(mock.uploads) = 1

\* C39: for maxAttempts <= 0 the executor never invokes the operation and
\* returns at once with Success = false; called with a nil policy it behaves
\* exactly as with maxAttempts = 3, baseDelay = 1s, backoff = 2.0.
C39_NoAttemptsAndNilPolicy ==
    /\ (pc # "idle" /\ config.MaxAttempts <= 0) =>
           /\ pc \in {"loop", "return96"}
           /\ fnCalls = 0
           /\ delays = <<>>
           /\ pc = "return96" =>
                  /\ ~result.Success
                  /\ result.Attempts = config.MaxAttempts
                  /\ result.TotalDelay = 0
    /\ (args.fn = "RetryWithBackoffWithContext" /\ args.config = NilConfig) =>
           config = [MaxAttempts |-> 3, Delay |-> Second, Backoff |-> Rat(2, 1)]

C39_Witness ==
    /\ pc = "return96"
    /\ args.fn = "RetryWithBackoffWithContext"
    /\ args.config.MaxAttempts = -1
    /\ ctxErr = Canceled
    /\ fnCalls = 0
    /\ ~result.Success

====
